---------------------------- MODULE Spec2Model ----------------------------
(***************************************************************************)
(* tcpchat: the wire codec (common/src/codec.rs, commands.rs), the framing *)
(* state machine (common/src/connection.rs), the server-side peer          *)
(* (server/src/client.rs) and the broadcast loop (server/src/server.rs).   *)
(*                                                                         *)
(* A byte is a number in 0..255, a byte string a sequence of bytes, and a  *)
(* Rust String the sequence of its UTF-8 bytes.                            *)
(***************************************************************************)
EXTENDS Integers, Sequences, FiniteSets, TLC

VARIABLES
    \* ---- the server process (Spec): server/src/main.rs, server.rs ----
    pc,             \* "running" while main loops, "failed" once it has returned
    clients,        \* Server.clients
    message_queue,  \* Server.message_queue
    inactivity,     \* Server.inactivity
    user_id_gen,    \* Server.user_id_gen.id
    msg_id_gen,     \* Server.msg_id_gen.id
    backlog,        \* Server.listener: the streams waiting to be accepted
    net,            \* every TCP stream opened to the server, by stream handle
    failure,        \* the error main returned: "None" while it runs, then the
                    \* call that failed, "accept" or "Client::new"
    \* history of the server process
    blocked,        \* number of sends so far that found the send buffer full
    queue_before,   \* message_queue when the latest call of update began
    polled,         \* what Client::poll returned in the latest ingest step
    sent_queue,     \* the queue the latest broadcast step iterated
    live,           \* user_ids of the clients connected after the latest ingest step
    sendlog,        \* the Connection::send calls of the latest broadcast step, in order
    broadcasts,     \* every command broadcast so far, in order, with its recipients
    newcomer,       \* the user_id of the Client the latest update created, or 0
    accepted,       \* the user_id of every Client created, in order
    left_pending,   \* streams left waiting when the latest poll_listener returned
    broadcast_peers, \* for each command of broadcasts, the number of Clients
                    \* created by the time it was broadcast
    \* ---- one Client fed by one stream (SpecConn) ----
    input,          \* the bytes the remote end writes on the stream
    stream,         \* the TCP stream seen from the server
    peer,           \* the server-side Client that owns the Connection
    last,           \* history: <<bytes arrived so far, result kind>> of the latest poll
    partial,        \* history: receive calls that read bytes and returned WouldBlock
    got,            \* history: the messages Client::poll returned, in order
    \* ---- one Client that is sent commands (SpecSend) ----
    outq,           \* the commands the server has still to send to the client
    rcpt,           \* the server-side Client
    rstream,        \* its TCP stream
    wrote,          \* history: the bytes written to the stream, in order
    handed,         \* history: the commands whose send did not fail, in order
    wlast,          \* history: the result kind of the latest Connection::send
    nblocked,       \* history: number of sends that found the send buffer full
    \* ---- one Connection::send, write by write (SpecFrame) ----
    sending,        \* the command being sent: the end that sends it, its
                    \* variant and the length of its string
    written,        \* the bytes written to the stream so far: the first two
                    \* and their number
    fpc,            \* position in Connection::send: "start", "length", "done"
    \* ---- one payload decoded (SpecCodec) ----
    subject,        \* the payload: the command coded, and what was done to
                    \* its bytes before they are decoded
    outcome,        \* what decode returned
    dpc,            \* "start" before decode is called, "done" after
    \* ---- the client process (SpecClient): client/src/main.rs ----
    server,         \* main's `server`: whether there is a handle, and its connected
    run,            \* main's `run`
    mpc,            \* position in the loop of main: "poll", "events", "check",
                    \* and "exited" when the loop has ended
    events,         \* history: number of UI events handled
    lastev,         \* history: the latest UI event handled
    reported,       \* history: number of "Server not connected!" errors logged
    writes,         \* history: number of commands given to Connection::send
    dropped,        \* history: number of handles discarded for being disconnected
    given,          \* history: for each handle made, in the order made, the
                    \* commands given to its Connection::send, in order
    typed           \* the text of the UI event handled: a user_name or a msg

hist == <<blocked, queue_before, polled, sent_queue, live, sendlog, broadcasts,
          newcomer, accepted, left_pending, broadcast_peers>>

svars == <<pc, clients, message_queue, inactivity, user_id_gen, msg_id_gen,
           backlog, net, failure, hist>>

cvars == <<input, stream, peer, last, partial, got>>

wvars == <<outq, rcpt, rstream, wrote, handed, wlast, nblocked>>

fvars == <<sending, written, fpc>>

dvars == <<subject, outcome, dpc>>

uvars == <<server, run, mpc, events, lastev, reported, writes, dropped, given,
           typed>>

vars == <<svars, cvars, wvars, fvars, dvars, uvars>>

-----------------------------------------------------------------------------
(* Bounds of the model.                                                    *)

\* longest chunk of bytes that arrives on the stream of SpecConn in one step
MaxChunk == 16

\* streams that the remote end closes or that are reset
MaxCloses == 1

\* value of Server.inactivity above which the model stops calling update
MaxInactivity == 1

\* writes that find the socket's send buffer full
MaxBlocked == 1

-----------------------------------------------------------------------------
(* common/src/codec.rs                                                     *)

Min(a, b) == IF a < b THEN a ELSE b

\* number of values of a u16
U16Mod == 65536

\* `x as u16`
AsU16(x) == x % U16Mod

\* A code of u16 that writes the low byte first (C21 fails).
u16_code_le(v) == << v % 256, v \div 256 >>

\* u16::code: to_be_bytes
u16_code(v) == << v \div 256, v % 256 >>

\* u16::coded_size: size_of::<u16>()
u16_coded_size == 2

\* A reader is a buffer and a 0-based position (std::io::Cursor).  A decode
\* returns ok/val and the new position; on a failed read_exact the cursor is
\* left at the end of the buffer.
DecOk(v, p) == [ok |-> TRUE, val |-> v, pos |-> p, err |-> "None"]

DecErr(kind, p) == [ok |-> FALSE, val |-> 0, pos |-> p, err |-> kind]

\* u16::decode: read_exact two bytes, from_be_bytes
u16_decode(buf, pos) ==
    IF Len(buf) - pos >= 2
    THEN DecOk(buf[pos + 1] * 256 + buf[pos + 2], pos + 2)
    ELSE DecErr("UnexpectedEof", Len(buf))

\* <[u8]>::code: the length as u16, then the bytes
slice_code(b) == u16_code(AsU16(Len(b))) \o b

\* <[u8]>::coded_size
slice_coded_size(b) == u16_coded_size + Len(b)

\* A read of the bytes of a slice that reports too few bytes as a read that
\* would block (C24 fails).
slice_read_blocks(buf, n) ==
    IF ~n.ok THEN n
    ELSE IF Len(buf) - n.pos >= n.val
         THEN DecOk(SubSeq(buf, n.pos + 1, n.pos + n.val), n.pos + n.val)
         ELSE DecErr("WouldBlock", Len(buf))

\* <[u8]>::decode, after its length n is decoded: read_exact that many bytes
slice_read(buf, n) ==
    IF ~n.ok THEN n
    ELSE IF Len(buf) - n.pos >= n.val
         THEN DecOk(SubSeq(buf, n.pos + 1, n.pos + n.val), n.pos + n.val)
         ELSE DecErr("UnexpectedEof", Len(buf))

\* <[u8]>::decode: a u16 length, then read_exact that many bytes
slice_decode(buf, pos) == slice_read(buf, u16_decode(buf, pos))

IsCont(x) == x >= 128 /\ x <= 191

\* the number of bytes of the UTF-8 sequence that the byte x begins, 0 if no
\* sequence begins with x (no overlong forms, nothing above U+10FFFF)
Utf8Width(x) ==
    IF x < 128 THEN 1
    ELSE IF x >= 194 /\ x <= 223 THEN 2
    ELSE IF x >= 224 /\ x <= 239 THEN 3
    ELSE IF x >= 240 /\ x <= 244 THEN 4
    ELSE 0

\* the bytes of b from i on begin with one well-formed UTF-8 sequence of w
\* bytes (no overlong forms, no surrogates, nothing above U+10FFFF), and the
\* byte behind it, if there is one, is not a continuation byte
Utf8SequenceAt(b, i, w) ==
    /\ w >= 1
    /\ i + w - 1 <= Len(b)
    /\ \A k \in (i + 1)..(i + w - 1) : IsCont(b[k])
    /\ (b[i] = 224) => b[i + 1] >= 160
    /\ (b[i] = 237) => b[i + 1] <= 159
    /\ (b[i] = 240) => b[i + 1] >= 144
    /\ (b[i] = 244) => b[i + 1] <= 143
    /\ (i + w <= Len(b)) => ~IsCont(b[i + w])

\* String::from_utf8's validation: the bytes are well-formed sequences one
\* after the other, that is, the first byte begins a sequence and every byte
\* that is not a continuation byte begins one that ends where the next begins
IsValidUtf8(b) ==
    /\ (b # << >>) => ~IsCont(b[1])
    /\ \A i \in DOMAIN b : IsCont(b[i]) \/ Utf8SequenceAt(b, i, Utf8Width(b[i]))

\* str::code
str_code(s) == slice_code(s)

\* str::coded_size
str_coded_size(s) == slice_coded_size(s)

\* A conversion that takes any bytes for a string (C23 fails).
from_utf8_unchecked(d) == d

\* String::from_utf8 on the decoded bytes, its error mapped to InvalidData
from_utf8(d) ==
    IF ~d.ok THEN d
    ELSE IF IsValidUtf8(d.val) THEN d ELSE DecErr("InvalidData", d.pos)

\* str::decode: the bytes, then String::from_utf8
str_decode(buf, pos) == from_utf8(slice_decode(buf, pos))

-----------------------------------------------------------------------------
(* common/src/commands.rs                                                  *)

CPadding == [tag |-> "Padding"]

CConnect(name) == [tag |-> "Connect", name |-> name]

CMessage(message) == [tag |-> "Message", message |-> message]

SPadding == [tag |-> "Padding"]

AddUser(user_id, name) == [tag |-> "AddUser", user_id |-> user_id, name |-> name]

RemoveUser(user_id) == [tag |-> "RemoveUser", user_id |-> user_id]

SMessage(msg_id, user_id, message) ==
    [tag |-> "Message", msg_id |-> msg_id, user_id |-> user_id, message |-> message]

\* ClientCommand::code
ClientCommand_code(c) ==
    CASE c.tag = "Padding" -> u16_code(0)
      [] c.tag = "Connect" -> u16_code(1) \o str_code(c.name)
      [] c.tag = "Message" -> u16_code(2) \o str_code(c.message)

\* ClientCommand::coded_size
ClientCommand_coded_size(c) ==
    CASE c.tag = "Padding" -> u16_coded_size
      [] c.tag = "Connect" -> u16_coded_size + str_coded_size(c.name)
      [] c.tag = "Message" -> u16_coded_size + str_coded_size(c.message)

\* ClientCommand::decode, the arm of Connect: s is the decoded name
Connect_decoded(s) == IF s.ok THEN DecOk(CConnect(s.val), s.pos) ELSE s

\* ClientCommand::decode, the arm of Message: s is the decoded message
Message_decoded(s) == IF s.ok THEN DecOk(CMessage(s.val), s.pos) ELSE s

\* A decode that takes a tag of no variant for Padding (C22 fails).
ClientCommand_match_lenient(buf, id) ==
    IF ~id.ok THEN id
    ELSE CASE id.val = 1 -> Connect_decoded(str_decode(buf, id.pos))
           [] id.val = 2 -> Message_decoded(str_decode(buf, id.pos))
           [] OTHER -> DecOk(CPadding, id.pos)

\* ClientCommand::decode, after its tag id is decoded
ClientCommand_match(buf, id) ==
    IF ~id.ok THEN id
    ELSE CASE id.val = 0 -> DecOk(CPadding, id.pos)
           [] id.val = 1 -> Connect_decoded(str_decode(buf, id.pos))
           [] id.val = 2 -> Message_decoded(str_decode(buf, id.pos))
           [] OTHER -> DecErr("InvalidData", id.pos)

\* ClientCommand::decode
ClientCommand_decode(buf, pos) == ClientCommand_match(buf, u16_decode(buf, pos))

\* ServerCommand::code
ServerCommand_code(c) ==
    CASE c.tag = "Padding" -> u16_code(0)
      [] c.tag = "AddUser" ->
            u16_code(1) \o u16_code(c.user_id) \o str_code(c.name)
      [] c.tag = "RemoveUser" -> u16_code(2) \o u16_code(c.user_id)
      [] c.tag = "Message" ->
            u16_code(3) \o u16_code(c.msg_id) \o u16_code(c.user_id)
                \o str_code(c.message)

\* ServerCommand::coded_size
ServerCommand_coded_size(c) ==
    CASE c.tag = "Padding" -> u16_coded_size
      [] c.tag = "AddUser" ->
            u16_coded_size + u16_coded_size + str_coded_size(c.name)
      [] c.tag = "RemoveUser" -> u16_coded_size + u16_coded_size
      [] c.tag = "Message" ->
            u16_coded_size + u16_coded_size + u16_coded_size
                + str_coded_size(c.message)

\* ServerCommand::decode, the arm of AddUser: s is the decoded name
AddUser_decoded(user_id, s) ==
    IF s.ok THEN DecOk(AddUser(user_id, s.val), s.pos) ELSE s

\* ServerCommand::decode, the arm of AddUser after its user_id is decoded
AddUser_decode(buf, user_id) ==
    IF ~user_id.ok THEN user_id
    ELSE AddUser_decoded(user_id.val, str_decode(buf, user_id.pos))

\* ServerCommand::decode, the arm of RemoveUser: user_id is the decoded user_id
RemoveUser_decoded(user_id) ==
    IF user_id.ok THEN DecOk(RemoveUser(user_id.val), user_id.pos) ELSE user_id

\* ServerCommand::decode, the arm of Message: s is the decoded message
SMessage_decoded(msg_id, user_id, s) ==
    IF s.ok THEN DecOk(SMessage(msg_id, user_id, s.val), s.pos) ELSE s

\* ServerCommand::decode, the arm of Message after its user_id is decoded
SMessage_from_user(buf, msg_id, user_id) ==
    IF ~user_id.ok THEN user_id
    ELSE SMessage_decoded(msg_id, user_id.val, str_decode(buf, user_id.pos))

\* ServerCommand::decode, the arm of Message after its msg_id is decoded
SMessage_decode(buf, msg_id) ==
    IF ~msg_id.ok THEN msg_id
    ELSE SMessage_from_user(buf, msg_id.val, u16_decode(buf, msg_id.pos))

\* ServerCommand::decode, after its tag id is decoded
ServerCommand_match(buf, id) ==
    IF ~id.ok THEN id
    ELSE CASE id.val = 0 -> DecOk(SPadding, id.pos)
           [] id.val = 1 -> AddUser_decode(buf, u16_decode(buf, id.pos))
           [] id.val = 2 -> RemoveUser_decoded(u16_decode(buf, id.pos))
           [] id.val = 3 -> SMessage_decode(buf, u16_decode(buf, id.pos))
           [] OTHER -> DecErr("InvalidData", id.pos)

\* ServerCommand::decode
ServerCommand_decode(buf, pos) == ServerCommand_match(buf, u16_decode(buf, pos))

-----------------------------------------------------------------------------
(* common/src/connection.rs                                                *)
(*                                                                         *)
(* A stream, seen from the reading end:                                    *)
(*   wire  bytes the remote end has still to write                         *)
(*   sock  bytes that have arrived and are not read yet                    *)
(*   st    "open"; "fin" once the remote end has closed (a read of the     *)
(*         drained socket returns 0); "rst" once the connection is reset   *)
(*         (a read fails with an I/O error)                                *)
(*   shutdowns  number of shutdown(Both) calls made on it by this end      *)

NewStream(wire) == [wire |-> wire, sock |-> << >>, st |-> "open", shutdowns |-> 0]

\* Connection::new
Connection_new ==
    [read_buffer |-> << >>, position |-> 0, read_buffer_actual |-> 0,
     read_mode |-> "Parse"]

\* Vec::resize(size, 0): keeps the bytes it has, pads with zeros
VecResize(v, size) == [i \in 1..size |-> IF i <= Len(v) THEN v[i] ELSE 0]

\* A resize_buf that leaves the position of the Cursor where it is (C29 fails).
resize_buf_keeps_position(c, size) ==
    [c EXCEPT !.read_buffer = VecResize(c.read_buffer, size),
              !.read_buffer_actual = 0]

\* Connection::resize_buf
resize_buf(c, size) ==
    [c EXCEPT !.read_buffer = VecResize(c.read_buffer, size),
              !.position = 0,
              !.read_buffer_actual = 0]

\* A read that would block when the slice it reads into is empty (C36 fails).
stream_read_empty_blocks(s, space) ==
    IF s.st = "rst" THEN [n |-> 0, err |-> "ConnectionReset"]
    ELSE IF space = 0 \/ (s.sock = << >> /\ s.st # "fin")
         THEN [n |-> 0, err |-> "WouldBlock"]
    ELSE IF s.sock = << >> THEN [n |-> 0, err |-> "None"]
    ELSE [n |-> Min(space, Len(s.sock)), err |-> "None"]

\* TcpStream::read into a slice of `space` bytes on a non-blocking socket:
\* the number of bytes read, or the error
stream_read(s, space) ==
    IF s.st = "rst" THEN [n |-> 0, err |-> "ConnectionReset"]
    ELSE IF space = 0 THEN [n |-> 0, err |-> "None"]
    ELSE IF s.sock = << >>
         THEN IF s.st = "fin" THEN [n |-> 0, err |-> "None"]
                              ELSE [n |-> 0, err |-> "WouldBlock"]
    ELSE [n |-> Min(space, Len(s.sock)), err |-> "None"]

\* A fill_buf that copies what it reads to the start of the buffer and counts
\* only that: a frame that arrives in pieces is never completed (C1 fails).
fill_buf_copy_forgets(c, s, n) ==
    [conn |-> [c EXCEPT
                 !.read_buffer =
                     [i \in 1..Len(c.read_buffer) |->
                        IF i <= n THEN s.sock[i] ELSE c.read_buffer[i]],
                 !.read_buffer_actual = n],
     stream |-> [s EXCEPT !.sock = SubSeq(s.sock, n + 1, Len(s.sock))],
     res |-> IF n = Len(c.read_buffer) THEN "Ok" ELSE "WouldBlock"]

\* Connection::fill_buf, the branch n > 0: n bytes are copied behind the
\* read_buffer_actual bytes the buffer holds
fill_buf_copy(c, s, n) ==
    [conn |-> [c EXCEPT
                 !.read_buffer =
                     [i \in 1..Len(c.read_buffer) |->
                        IF i > c.read_buffer_actual /\ i <= c.read_buffer_actual + n
                        THEN s.sock[i - c.read_buffer_actual]
                        ELSE c.read_buffer[i]],
                 !.read_buffer_actual = @ + n],
     stream |-> [s EXCEPT !.sock = SubSeq(s.sock, n + 1, Len(s.sock))],
     res |-> IF c.read_buffer_actual + n = Len(c.read_buffer)
             THEN "Ok" ELSE "WouldBlock"]

\* A fill_buf that takes a read of zero bytes for a read that would block
\* (C25 fails).
fill_buf_after_eof_blocks(c, s, r) ==
    IF r.err # "None" THEN [conn |-> c, stream |-> s, res |-> r.err]
    ELSE IF r.n = 0 THEN [conn |-> c, stream |-> s, res |-> "WouldBlock"]
    ELSE fill_buf_copy(c, s, r.n)

\* Connection::fill_buf, given the outcome r of the read
fill_buf_after(c, s, r) ==
    IF r.err # "None" THEN [conn |-> c, stream |-> s, res |-> r.err]
    ELSE IF r.n = 0 THEN [conn |-> c, stream |-> s, res |-> "UnexpectedEof"]
    ELSE fill_buf_copy(c, s, r.n)

\* Connection::fill_buf: the connection, the stream and the result kind
fill_buf(c, s) ==
    fill_buf_after(c, s, stream_read(s, Len(c.read_buffer) - c.read_buffer_actual))

None == [tag |-> "None"]

\* what an iteration of the loop of Connection::receive leaves: the connection,
\* the stream, whether the call returns, and then the result kind ("Ok" or the
\* error kind) and the message
Returns(c, s, res, msg) ==
    [conn |-> c, stream |-> s, done |-> TRUE, res |-> res, msg |-> msg]

Continues(c, s) ==
    [conn |-> c, stream |-> s, done |-> FALSE, res |-> "Ok", msg |-> None]

\* ReadMode::Size, after fill_buf returned f
receive_Size(f) ==
    IF f.res # "Ok" THEN Returns(f.conn, f.stream, f.res, None)
    ELSE Continues(
            [resize_buf(f.conn, u16_decode(f.conn.read_buffer, f.conn.position).val)
                EXCEPT !.read_mode = "Data"],
            f.stream)

\* ReadMode::Data, after fill_buf returned f
receive_Data(f) ==
    IF f.res # "Ok" THEN Returns(f.conn, f.stream, f.res, None)
    ELSE Continues([f.conn EXCEPT !.read_mode = "Parse"], f.stream)

\* ReadMode::Parse with bytes left in the buffer, after decode returned d
receive_Parse(c, s, d) ==
    Returns([c EXCEPT !.position = d.pos], s,
            IF d.ok THEN "Ok" ELSE d.err,
            IF d.ok THEN d.val ELSE None)

\* one iteration of the loop of Connection::receive
receive_iter(c, s) ==
    CASE c.read_mode = "Size" -> receive_Size(fill_buf(c, s))
      [] c.read_mode = "Data" -> receive_Data(fill_buf(c, s))
      [] c.read_mode = "Parse" ->
            IF c.position < Len(c.read_buffer)
            THEN receive_Parse(c, s, ClientCommand_decode(c.read_buffer, c.position))
            ELSE Continues(
                    [resize_buf(c, u16_coded_size) EXCEPT !.read_mode = "Size"], s)

\* the next iteration, unless the call has returned
receive_next(r) == IF r.done THEN r ELSE receive_iter(r.conn, r.stream)

\* Connection::<ServerCommand, ClientCommand>::receive.  The loop returns within
\* four iterations: Parse (buffer consumed) -> Size -> Data -> Parse (a filled
\* buffer of at least one byte, position 0) returns, and a failed fill returns.
Connection_receive(c, s) ==
    receive_next(receive_next(receive_next(receive_iter(c, s))))

\* the bytes Connection::send writes for a ServerCommand: the coded size as a
\* big-endian u16, then the coded message
ServerFrame(msg) ==
    u16_code(AsU16(ServerCommand_coded_size(msg))) \o ServerCommand_code(msg)

\* the same for a ClientCommand (the sending end of Connection<ClientCommand, _>)
ClientFrame(msg) ==
    u16_code(AsU16(ClientCommand_coded_size(msg))) \o ClientCommand_code(msg)


\* The outcome of the writes of one Connection::send on a non-blocking socket:
\* res "Ok" (every write_all wrote its bytes), "WouldBlock" (the send buffer
\* filled up after n bytes of the frame) or the kind of an I/O error (after n
\* bytes of the frame).
WriteOk == [res |-> "Ok", n |-> 0]

WriteBlocked(n) == [res |-> "WouldBlock", n |-> n]

WriteFailed == [res |-> "BrokenPipe", n |-> 0]

\* the bytes of the frame of msg that a send of outcome o writes
Written(msg, o) ==
    IF o.res = "Ok" THEN ServerFrame(msg) ELSE SubSeq(ServerFrame(msg), 1, o.n)

\* Connection::send: write_all of the length, then ServerCommand::code on the
\* stream; the stream after the call (its reading side is untouched) and the
\* result kind.  The outcome of the call is kept in sendlog.  A write fails with an
\* I/O error on a stream that the remote end has closed or reset: earlier, or
\* else by now.
Connection_send(s, msg, o) ==
    [stream |-> [s EXCEPT !.st = IF o.res = "BrokenPipe" /\ @ = "open"
                                 THEN "rst" ELSE @],
     res |-> o.res]

-----------------------------------------------------------------------------
(* server/src/client.rs                                                    *)

\* Client::new (addr, which is only logged, is left out)
Client_new(s, user_id) ==
    [stream |-> s, user_id |-> user_id, connected |-> TRUE,
     connection |-> Connection_new]

\* A disconnect without the guard on connected, which shuts the stream down at
\* every call (C14 fails).
Client_disconnect_again(c, s) ==
    [client |-> [c EXCEPT !.connected = FALSE],
     stream |-> [s EXCEPT !.shutdowns = @ + 1]]

\* Client::disconnect: the client and its stream
Client_disconnect(c, s) ==
    IF ~c.connected THEN [client |-> c, stream |-> s]
    ELSE [client |-> [c EXCEPT !.connected = FALSE],
          stream |-> [s EXCEPT !.shutdowns = @ + 1]]

\* what Client::poll leaves: the client, the stream, the message or None, and the
\* result kind of the receive call ("NotConnected" when none was made)
Polled(d, msg, res) ==
    [client |-> d.client, stream |-> d.stream, msg |-> msg, res |-> res]

\* A poll that takes the end of the stream for a read that would block and
\* keeps the Client connected (C16 fails).
Client_poll_match_eof_blocks(c, r) ==
    IF r.res = "Ok" \/ r.res = "WouldBlock" \/ r.res = "UnexpectedEof"
    THEN Polled([client |-> [c EXCEPT !.connection = r.conn], stream |-> r.stream],
                r.msg, r.res)
    ELSE Polled(Client_disconnect([c EXCEPT !.connection = r.conn], r.stream),
                None, r.res)

\* Client::poll, after receive returned r
Client_poll_match(c, r) ==
    IF r.res = "Ok" \/ r.res = "WouldBlock"
    THEN Polled([client |-> [c EXCEPT !.connection = r.conn], stream |-> r.stream],
                r.msg, r.res)
    ELSE Polled(Client_disconnect([c EXCEPT !.connection = r.conn], r.stream),
                None, r.res)

\* A poll without the guard on connected, which calls receive on the
\* Connection of a disconnected Client (C15 fails).
Client_poll_unguarded(c, s) ==
    Client_poll_match(c, Connection_receive(c.connection, s))

\* Client::poll
Client_poll(c, s) ==
    IF ~c.connected
    THEN Polled([client |-> c, stream |-> s], None, "NotConnected")
    ELSE Client_poll_match(c, Connection_receive(c.connection, s))

\* Client::send, after Connection::send returned r
Client_send_match(c, r) ==
    IF r.res = "Ok" \/ r.res = "WouldBlock"
    THEN [client |-> c, stream |-> r.stream]
    ELSE Client_disconnect(c, r.stream)

\* Client::send: the client and its stream
Client_send(c, s, msg, o) ==
    IF ~c.connected THEN [client |-> c, stream |-> s]
    ELSE Client_send_match(c, Connection_send(s, msg, o))

\* Client::flush: TcpStream::flush does nothing and returns Ok
Client_flush(c, s) == [client |-> c, stream |-> s]

-----------------------------------------------------------------------------
(* server/src/server.rs                                                    *)

\* IdGen::new
IdGen_new == 0

\* An IdGen that hands out its id without advancing it (C10 fails).
IdGen_get_stuck(id) == id

\* IdGen::get: id += 1 on a u16, and the new id
IdGen_get(id) == (id + 1) % U16Mod

\* A translation that numbers a message with the id before the increment, so
\* that the first message is number 0 (C6 fails).
Translate_stale_id(cc, user_id, gen) ==
    CASE cc.tag = "None" -> << >>
      [] cc.tag = "Padding" -> << >>
      [] cc.tag = "Connect" -> << AddUser(user_id, cc.name) >>
      [] cc.tag = "Message" -> << SMessage(gen, user_id, cc.message) >>

\* Server::update, lines 69-82: the ServerCommands (none or one) that the
\* ClientCommand cc polled from the client of user_id becomes, given msg_id_gen
Translate(cc, user_id, gen) ==
    CASE cc.tag = "None" -> << >>
      [] cc.tag = "Padding" -> << >>
      [] cc.tag = "Connect" -> << AddUser(user_id, cc.name) >>
      [] cc.tag = "Message" -> << SMessage(IdGen_get(gen), user_id, cc.message) >>

\* An ingest step that queues a command under the user_id of the first client,
\* whoever sent it (C7 fails).
ingest_client_first(sv, i, r) ==
    [clients |-> [sv.clients EXCEPT ![i] = r.client],
     net |-> [sv.net EXCEPT ![sv.clients[i].stream] = r.stream],
     message_queue |->
        sv.message_queue \o Translate(r.msg, sv.clients[1].user_id, sv.msg_id_gen),
     msg_id_gen |->
        IF r.msg.tag = "Message" THEN IdGen_get(sv.msg_id_gen) ELSE sv.msg_id_gen,
     polled |->
        IF r.msg = None THEN sv.polled
        ELSE Append(sv.polled, [user_id |-> r.client.user_id, cmd |-> r.msg])]

\* An ingest step that draws a msg_id for every command polled, a Padding or a
\* Connect too (C11 fails).
ingest_client_draws(sv, i, r) ==
    [clients |-> [sv.clients EXCEPT ![i] = r.client],
     net |-> [sv.net EXCEPT ![sv.clients[i].stream] = r.stream],
     message_queue |->
        sv.message_queue \o Translate(r.msg, r.client.user_id, sv.msg_id_gen),
     msg_id_gen |->
        IF r.msg # None THEN IdGen_get(sv.msg_id_gen) ELSE sv.msg_id_gen,
     polled |->
        IF r.msg = None THEN sv.polled
        ELSE Append(sv.polled, [user_id |-> r.client.user_id, cmd |-> r.msg])]

\* Server::update, the ingest step for clients[i], after its poll returned r
ingest_client(sv, i, r) ==
    [clients |-> [sv.clients EXCEPT ![i] = r.client],
     net |-> [sv.net EXCEPT ![sv.clients[i].stream] = r.stream],
     message_queue |->
        sv.message_queue \o Translate(r.msg, r.client.user_id, sv.msg_id_gen),
     msg_id_gen |->
        IF r.msg.tag = "Message" THEN IdGen_get(sv.msg_id_gen) ELSE sv.msg_id_gen,
     polled |->
        IF r.msg = None THEN sv.polled
        ELSE Append(sv.polled, [user_id |-> r.client.user_id, cmd |-> r.msg])]

\* the ingest step for clients[i] alone: its poll and what ingest_client makes
\* of it
ingest_polled(sv, i) ==
    ingest_client(sv, i, Client_poll(sv.clients[i], sv.net[sv.clients[i].stream]))

\* An ingest step that polls every client twice in a row (C30 fails).
RECURSIVE ingest_twice(_, _)
ingest_twice(sv, i) ==
    IF i > Len(sv.clients) THEN sv
    ELSE ingest_twice(ingest_polled(ingest_polled(sv, i), i), i + 1)

\* An ingest step that polls the first client of the set alone (C35 fails).
ingest_first_only(sv, i) ==
    IF i > Len(sv.clients) \/ i > 1 THEN sv ELSE ingest_polled(sv, i)

\* Server::update, the ingest step from clients[i] on: message_queue.extend over
\* clients.iter_mut()
RECURSIVE ingest(_, _)
ingest(sv, i) ==
    IF i > Len(sv.clients) THEN sv
    ELSE ingest(ingest_client(sv, i,
                    Client_poll(sv.clients[i], sv.net[sv.clients[i].stream])),
                i + 1)

\* The outcome of the send of message mi to clients[ci] under the choice ch of
\* what the sockets do in this broadcast step
OutcomeOf(ch, mi, ci) ==
    IF ch.fail[ci] = mi THEN WriteFailed
    ELSE IF ch.blk[1] = mi /\ ch.blk[2] = ci THEN WriteBlocked(ch.blk[3])
    ELSE WriteOk

\* Server::update, the body of the inner loop for message mi and clients[ci],
\* after client.send and client.flush returned r
send_client(sv, mi, ci, r, o, ch) ==
    [clients |-> [sv.clients EXCEPT ![ci] = r.client],
     net |-> [sv.net EXCEPT ![sv.clients[ci].stream] = r.stream],
     sendlog |->
        IF sv.clients[ci].connected
        THEN Append(sv.sendlog,
                    [idx |-> mi, to |-> sv.clients[ci].user_id,
                     cmd |-> ch.queue[mi], res |-> o.res, n |-> o.n])
        ELSE sv.sendlog]

\* client.send(message); client.flush()
send_flush(c, s, msg, o) ==
    Client_flush(Client_send(c, s, msg, o).client, Client_send(c, s, msg, o).stream)

\* Nested loops that take the queue from its last message to its first (C5
\* fails).
PairMessage_backwards(q, n, p) == Len(q) - (p \div n)

\* Server::update, the nested loops of the broadcast step: the p-th send
\* (from 0) of a queue q to n clients is of the message PairMessage to the
\* client PairClient, every client in turn for one message, then the next message
PairMessage(q, n, p) == (p \div n) + 1

PairClient(q, n, p) == (p % n) + 1

\* A broadcast that does not send a command back to the client it came from
\* (C4 fails).
broadcast_pair_noecho(sv, mi, ci, ch) ==
    IF /\ ch.queue[mi].tag \in {"AddUser", "Message"}
       /\ ch.queue[mi].user_id = sv.clients[ci].user_id
    THEN sv
    ELSE send_client(sv, mi, ci,
                     send_flush(sv.clients[ci], sv.net[sv.clients[ci].stream],
                                ch.queue[mi], OutcomeOf(ch, mi, ci)),
                     OutcomeOf(ch, mi, ci), ch)

\* the p-th send of the broadcast step
broadcast_pair(sv, mi, ci, ch) ==
    send_client(sv, mi, ci,
                send_flush(sv.clients[ci], sv.net[sv.clients[ci].stream],
                           ch.queue[mi], OutcomeOf(ch, mi, ci)),
                OutcomeOf(ch, mi, ci), ch)

\* A broadcast step that ends at the first send that fails (C34 fails).
RECURSIVE broadcast_until_failure(_, _, _)
broadcast_until_failure(sv, p, ch) ==
    IF \/ p >= Len(ch.queue) * Len(sv.clients)
       \/ \E k \in DOMAIN sv.sendlog : sv.sendlog[k].res = "BrokenPipe"
    THEN sv
    ELSE broadcast_until_failure(
            broadcast_pair(sv, PairMessage(ch.queue, Len(sv.clients), p),
                           PairClient(ch.queue, Len(sv.clients), p), ch),
            p + 1, ch)

\* Server::update, the broadcast step from the p-th send on
RECURSIVE broadcast(_, _, _)
broadcast(sv, p, ch) ==
    IF p >= Len(ch.queue) * Len(sv.clients) THEN sv
    ELSE broadcast(
            broadcast_pair(sv, PairMessage(ch.queue, Len(sv.clients), p),
                           PairClient(ch.queue, Len(sv.clients), p), ch),
            p + 1, ch)

IsConnected(c) == c.connected

IsDisconnected(c) == ~c.connected

\* The RemoveUser commands of the clients cs from the last to the first
\* (C33 fails).
RECURSIVE RemoveUsers_backwards(_)
RemoveUsers_backwards(cs) ==
    IF cs = << >> THEN << >>
    ELSE RemoveUsers_backwards(Tail(cs)) \o << RemoveUser(Head(cs).user_id) >>

\* the RemoveUser commands of the clients cs, in order
RECURSIVE RemoveUsers(_)
RemoveUsers(cs) ==
    IF cs = << >> THEN << >>
    ELSE << RemoveUser(Head(cs).user_id) >> \o RemoveUsers(Tail(cs))

\* the user_ids of the clients cs, in order
RECURSIVE UserIds(_)
UserIds(cs) ==
    IF cs = << >> THEN << >> ELSE << Head(cs).user_id >> \o UserIds(Tail(cs))

\* A prune step that keeps every client (C9 fails).
retained_all(cs) == cs

\* A broadcast step that leaves the queue as it is, so that its commands are
\* broadcast again in the next tick (C20 fails).
cleared_not(q) == q

\* Server::update, the end of the broadcast step: message_queue.clear()
cleared(q) == << >>

\* Server::update, the prune step: clients.retain keeps the connected ones
retained(cs) == SelectSeq(cs, IsConnected)

\* A prune step that pushes the RemoveUser of each client removed twice
\* (C31 fails).
removals_doubled(cs) ==
    RemoveUsers(SelectSeq(cs, IsDisconnected)) \o RemoveUsers(SelectSeq(cs, IsDisconnected))

\* A prune step that pushes no RemoveUser (C8 fails).
removals_none(cs) == << >>

\* Server::update, the prune step: a RemoveUser is pushed for each client removed
removals(cs) == RemoveUsers(SelectSeq(cs, IsDisconnected))

\* Server::new
ServerNew ==
    /\ clients = << >>
    /\ message_queue = << >>
    /\ inactivity = 0
    /\ user_id_gen = IdGen_new
    /\ msg_id_gen = IdGen_new
    /\ backlog = << >>

-----------------------------------------------------------------------------
(* The strings, commands and byte strings the remote ends send.            *)

Str_a == << 97 >>

Str_hi == << 104, 105 >>

\* "e" with an acute accent, two bytes of UTF-8
Str_eacute == << 195, 169 >>

SomeStrings == { << >>, Str_a, Str_hi, Str_eacute }

SomeClientCommands ==
    {CPadding} \cup {CConnect(s) : s \in SomeStrings}
               \cup {CMessage(s) : s \in SomeStrings}

\* the frames a well-behaved remote end sends
ValidFrames == {ClientFrame(c) : c \in SomeClientCommands}

\* frames whose payload holds more than one value
TrailingFrames ==
    { << 0, 4, 0, 0, 0, 0 >>,           \* two Padding values in one frame
      << 0, 3, 0, 0, 7 >>,              \* a Padding and one byte left over
      << 0, 6, 0, 1, 0, 1, 97, 98 >> }  \* Connect{"a"} and one byte left over

\* frames whose payload holds less than one value
ShortFrames ==
    { << 0, 3, 0, 1, 0 >>,              \* Connect cut short in its string length
      << 0, 5, 0, 2, 0, 2, 97 >>,       \* Message whose string is cut short
      << 0, 1, 0 >> }                   \* half a tag

\* other frames that do not decode
BadFrames ==
    { << 0, 0 >>,                       \* declared length 0
      << 0, 2, 0, 9 >>,                 \* tag 9
      << 0, 5, 0, 1, 0, 1, 255 >>,      \* Connect with a name that is not UTF-8
      << 0, 6, 0, 2, 0, 2, 195, 40 >> } \* Message with a broken UTF-8 sequence

\* what the remote end of SpecConn writes: one frame, or two
Inputs ==
    ValidFrames \cup TrailingFrames \cup ShortFrames \cup BadFrames
        \cup {ClientFrame(CConnect(Str_a)) \o ClientFrame(CMessage(Str_hi)),
              ClientFrame(CPadding) \o ClientFrame(CMessage(Str_a)),
              << 0, 4, 0, 0, 0, 0 >> \o ClientFrame(CPadding),
              ClientFrame(CPadding) \o << 0, 7 >>,
              << 0, 2, 0, 9 >> \o ClientFrame(CPadding),
              << 0, 0 >> \o ClientFrame(CPadding)}

\* What the remote ends of the server write, as the segments that arrive.
\* Talk is a client that connects as "a" and says "hi" (client/src/main.rs).
\* PadSayBad sends a keep-alive with the start of a message, then the rest of
\* the message with a tag the server does not know.  Silent sends nothing.
Talk == << ClientFrame(CConnect(Str_a)), ClientFrame(CMessage(Str_hi)) >>

PadSayBad ==
    << ClientFrame(CPadding) \o SubSeq(ClientFrame(CMessage(Str_a)), 1, 3),
       SubSeq(ClientFrame(CMessage(Str_a)), 4, 7) \o << 0, 2, 0, 9 >> >>

Silent == << >>

\* the remote ends, in the order in which they connect
Cast == << Talk, PadSayBad, Silent >>

-----------------------------------------------------------------------------
(* The server process: main calls Server::update in a loop and returns at  *)
(* its first error.  The process is single-threaded, so a call of update   *)
(* is one step.  What the network does during the call is in the outcome   *)
(* of its reads and writes: a segment that arrives during the call is read *)
(* in it or arrives after it, and a stream closed during the call makes a  *)
(* write of the call fail.                                                 *)

\* the server process before main's first call of update
ServerIdle ==
    /\ ServerNew
    /\ pc = "running"
    /\ net = << >>
    /\ failure = "None"
    /\ blocked = 0
    /\ queue_before = << >>
    /\ polled = << >>
    /\ sent_queue = << >>
    /\ live = {}
    /\ sendlog = << >>
    /\ broadcasts = << >>
    /\ newcomer = 0
    /\ accepted = << >>
    /\ left_pending = 0
    /\ broadcast_peers = << >>

\* the variables of SpecConn, where they are not used
ConnIdle ==
    /\ input = << >>
    /\ stream = NewStream(<< >>)
    /\ peer = Client_new(1, 1)
    /\ last = << 0, "None" >>
    /\ partial = 0
    /\ got = << >>

\* the variables of SpecSend, where they are not used
SendIdle ==
    /\ outq = << >>
    /\ rcpt = Client_new(1, 1)
    /\ rstream = NewStream(<< >>)
    /\ wrote = << >>
    /\ handed = << >>
    /\ wlast = "None"
    /\ nblocked = 0

\* the variables of SpecFrame, where they are not used
FrameIdle ==
    /\ sending = [side |-> "server", tag |-> "Padding", n |-> 0]
    /\ written = [head |-> << >>, len |-> 0]
    /\ fpc = "start"

\* the variables of SpecCodec, where they are not used
CodecIdle ==
    /\ subject = [side |-> "server", tag |-> "Padding", n |-> 0, fill |-> "ascii",
                  id |-> 0, damage |-> "none", v |-> 0]
    /\ outcome = [ok |-> FALSE, err |-> "None", same |-> FALSE, pos |-> 0, len |-> 0]
    /\ dpc = "start"

\* main's `server` when there is no handle (None)
NoServer == [some |-> FALSE, connected |-> FALSE]

\* the client process before the loop of main: the variables of SpecClient
\* where they are not used, and its initial state
ClientIdle ==
    /\ server = NoServer
    /\ run = TRUE
    /\ mpc = "poll"
    /\ events = 0
    /\ lastev = "None"
    /\ reported = 0
    /\ writes = 0
    /\ dropped = 0
    /\ given = << >>
    /\ typed = << >>

Init == ServerIdle /\ ConnIdle /\ SendIdle /\ FrameIdle /\ CodecIdle /\ ClientIdle

\* the next remote end connects: the stream waits in the listener's backlog
Connect ==
    /\ pc = "running"
    /\ Len(net) < Len(Cast)
    /\ net' = Append(net, NewStream(Cast[Len(net) + 1]))
    /\ backlog' = Append(backlog, Len(net) + 1)
    /\ UNCHANGED <<pc, failure, clients, message_queue, inactivity, user_id_gen,
                   msg_id_gen,
                   hist, cvars, wvars, fvars, dvars, uvars>>

\* the next segment written by the remote end of stream k arrives
NetArrive(k) ==
    /\ pc = "running"
    /\ net[k].st = "open"
    /\ net[k].wire # << >>
    /\ net' = [net EXCEPT ![k].wire = Tail(@), ![k].sock = @ \o Head(net[k].wire)]
    /\ UNCHANGED <<pc, failure, clients, message_queue, inactivity, user_id_gen,
                   msg_id_gen,
                   backlog, hist,
                   cvars, wvars, fvars, dvars, uvars>>

\* number of streams closed by their remote end or reset
NumCloses(nt) == Cardinality({k \in DOMAIN nt : nt[k].st # "open"})

\* the remote end of stream k closes it, or the connection is reset (what has
\* arrived and is not read is lost)
NetClose(k, how) ==
    /\ pc = "running"
    /\ net[k].st = "open"
    /\ NumCloses(net) < MaxCloses
    /\ net' = [net EXCEPT ![k].st = how,
                          ![k].sock = IF how = "rst" THEN << >> ELSE @]
    /\ UNCHANGED <<pc, failure, clients, message_queue, inactivity, user_id_gen,
                   msg_id_gen,
                   backlog, hist,
                   cvars, wvars, fvars, dvars, uvars>>

\* the sends of the log that found the send buffer full
Blocked(log) == {i \in DOMAIN log : log[i].res = "WouldBlock"}

\* where a blocked send stops: before the frame (the write_all of the length
\* blocks) or after its length (ServerCommand::code blocks)
BlockedAt == {0, 2}

\* the sends of a broadcast step that may block: <<message, client, bytes
\* written>>, for the clients cs and the queue q
BlockChoices(cs, q) ==
    IF blocked >= MaxBlocked THEN {}
    ELSE (1..Len(q)) \X {c \in 1..Len(cs) : cs[c].connected} \X BlockedAt

\* fail[ci] is the message whose send to cs[ci] fails with an I/O error (0:
\* none), which needs the remote end to have closed or reset the stream: before
\* this call of update, or else during it
FailChoices(cs, q, nt) ==
    { g \in [1..Len(cs) -> 0..Len(q)] :
        /\ \A ci \in 1..Len(cs) : g[ci] # 0 => cs[ci].connected
        /\ Cardinality({ci \in 1..Len(cs) :
                           g[ci] # 0 /\ nt[cs[ci].stream].st = "open"})
              <= MaxCloses - NumCloses(nt) }

\* What the sockets do in one broadcast step: fail, and blk, which is
\* <<mi, ci, n>> when the send of message mi to cs[ci] blocks after n bytes and
\* <<0, 0, 0>> when no send blocks.
SocketChoices(cs, q, nt) ==
    { ch \in [queue : {q}, fail : FailChoices(cs, q, nt),
              blk : {<< 0, 0, 0 >>} \cup BlockChoices(cs, q)] :
        ch.blk[1] # 0 => \/ ch.fail[ch.blk[2]] = 0
                         \/ ch.fail[ch.blk[2]] > ch.blk[1] }

\* Server::update from line 64 on, after poll_listener left the clients cs and
\* the inactivity inact: the ingest step (ing), the broadcast step (bc) under
\* some behaviour of the sockets (ch), and the prune step
UpdateFrom(cs, inact) ==
    \E ing \in {ingest([clients |-> cs, net |-> net,
                        message_queue |-> message_queue,
                        msg_id_gen |-> msg_id_gen, polled |-> << >>], 1)} :
      \E ch \in SocketChoices(ing.clients, ing.message_queue, ing.net) :
        \E bc \in {broadcast([clients |-> ing.clients, net |-> ing.net,
                              sendlog |-> << >>], 0, ch)} :
          /\ msg_id_gen' = ing.msg_id_gen
          /\ polled' = ing.polled
          /\ sent_queue' = ing.message_queue
          /\ queue_before' = message_queue
          /\ live' = {ing.clients[i].user_id :
                         i \in {j \in DOMAIN ing.clients : ing.clients[j].connected}}
          /\ blocked' = blocked + Cardinality(Blocked(bc.sendlog))
          /\ broadcasts' = broadcasts \o
                [i \in 1..Len(ing.message_queue) |->
                    [cmd |-> ing.message_queue[i],
                     to |-> {bc.sendlog[k].to :
                               k \in {j \in DOMAIN bc.sendlog : bc.sendlog[j].idx = i}}]]
          /\ net' = bc.net
          /\ sendlog' = bc.sendlog
          /\ clients' = retained(bc.clients)
          /\ message_queue' = cleared(ing.message_queue) \o removals(bc.clients)
          /\ broadcast_peers' = broadcast_peers \o
                [i \in 1..Len(ing.message_queue) |->
                    Len(accepted) + (Len(cs) - Len(clients))]
          /\ inactivity' =
                IF Len(retained(bc.clients)) # Len(bc.clients) THEN 0
                ELSE IF ing.message_queue # << >> THEN 0
                ELSE inact

\* main calls update
BeginUpdate ==
    /\ pc = "running"
    /\ inactivity <= MaxInactivity

\* An update that does not count itself: inactivity is not incremented
\* (C26 fails).
UpdateNoAccept_uncounted ==
    /\ BeginUpdate
    /\ backlog = << >>
    /\ newcomer' = 0
    /\ left_pending' = 0
    /\ UpdateFrom(clients, inactivity)
    /\ UNCHANGED <<pc, failure, user_id_gen, backlog, accepted, cvars, wvars, fvars, dvars, uvars>>

\* update when poll_listener finds no stream to accept (WouldBlock)
UpdateNoAccept ==
    /\ BeginUpdate
    /\ backlog = << >>
    /\ newcomer' = 0
    /\ left_pending' = 0
    /\ UpdateFrom(clients, inactivity + 1)
    /\ UNCHANGED <<pc, failure, user_id_gen, backlog, accepted, cvars, wvars, fvars, dvars, uvars>>

\* update when poll_listener accepts a stream and Client::new succeeds
UpdateAccept ==
    /\ BeginUpdate
    /\ backlog # << >>
    /\ user_id_gen' = IdGen_get(user_id_gen)
    /\ accepted' = Append(accepted, IdGen_get(user_id_gen))
    /\ newcomer' = IdGen_get(user_id_gen)
    /\ backlog' = Tail(backlog)
    /\ left_pending' = Len(Tail(backlog))
    /\ UpdateFrom(Append(clients, Client_new(Head(backlog), IdGen_get(user_id_gen))),
                  0)
    /\ UNCHANGED <<pc, failure, cvars, wvars, fvars, dvars, uvars>>

\* update when poll_listener accepts a stream whose connection is reset already
\* and Client::new fails on peer_addr: update returns the error, and so does main
UpdateSetupFails ==
    /\ BeginUpdate
    /\ backlog # << >>
    /\ net[Head(backlog)].st = "rst"
    /\ inactivity' = 0
    /\ user_id_gen' = IdGen_get(user_id_gen)
    /\ backlog' = Tail(backlog)
    /\ pc' = "failed"
    /\ failure' = "Client::new"
    /\ UNCHANGED <<clients, message_queue, msg_id_gen, net, hist, cvars, wvars, fvars, dvars, uvars>>

\* An update that goes on with the ingest, broadcast and prune steps after
\* accept has failed, and returns the error at its end (C18 fails).
UpdateAcceptFails_goes_on ==
    /\ BeginUpdate
    /\ backlog # << >>
    /\ pc' = "failed"
    /\ failure' = "accept"
    /\ newcomer' = 0
    /\ left_pending' = Len(backlog)
    /\ UpdateFrom(clients, inactivity + 1)
    /\ UNCHANGED <<user_id_gen, backlog, accepted, cvars, wvars, fvars, dvars, uvars>>

\* update when accept fails on a waiting stream with an error other than
\* WouldBlock: update returns the error, and so does main
UpdateAcceptFails ==
    /\ BeginUpdate
    /\ backlog # << >>
    /\ inactivity' = inactivity + 1
    /\ pc' = "failed"
    /\ failure' = "accept"
    /\ UNCHANGED <<clients, message_queue, user_id_gen, msg_id_gen, backlog, net,
                   hist, cvars, wvars, fvars, dvars, uvars>>

Next ==
    \/ Connect
    \/ \E k \in DOMAIN net : NetArrive(k)
    \/ \E k \in DOMAIN net : \E how \in {"fin", "rst"} : NetClose(k, how)
    \/ UpdateNoAccept
    \/ UpdateAccept
    \/ UpdateSetupFails
    \/ UpdateAcceptFails

Spec == Init /\ [][Next]_vars

-----------------------------------------------------------------------------
(* One Client and its stream: the remote end writes `input`, which arrives *)
(* in chunks of any size; the server polls the client at any time.         *)

InitConn ==
    /\ ServerIdle
    /\ ClientIdle
    /\ CodecIdle
    /\ SendIdle
    /\ FrameIdle
    /\ input \in Inputs
    /\ stream = NewStream(input)
    /\ peer = Client_new(1, 1)
    /\ last = << 0, "None" >>
    /\ partial = 0
    /\ got = << >>

\* the next n bytes the remote end wrote arrive at the socket
Arrive(n) ==
    /\ stream.st = "open"
    /\ n <= Len(stream.wire)
    /\ stream' = [stream EXCEPT !.wire = SubSeq(@, n + 1, Len(@)),
                                !.sock = @ \o SubSeq(stream.wire, 1, n)]
    /\ UNCHANGED <<svars, wvars, fvars, dvars, uvars, input, peer, last, partial, got>>

\* the remote end closes the stream, or the connection is reset (what has
\* arrived and is not read is lost)
RemoteClose(how) ==
    /\ stream.st = "open"
    /\ stream' = [stream EXCEPT !.st = how,
                                !.sock = IF how = "rst" THEN << >> ELSE @]
    /\ UNCHANGED <<svars, wvars, fvars, dvars, uvars, input, peer, last, partial, got>>

\* bytes of input that have arrived at the socket of stream s
Arrived(s) == Len(input) - Len(s.wire)

\* the server calls Client::poll
Poll ==
    /\ \E r \in {Client_poll(peer, stream)} :
          /\ peer' = r.client
          /\ stream' = r.stream
          /\ last' = << Arrived(stream), r.res >>
          /\ partial' = IF r.res = "WouldBlock" /\ r.stream.sock # stream.sock
                        THEN partial + 1 ELSE partial
          /\ got' = IF r.msg = None THEN got ELSE Append(got, r.msg)
    /\ UNCHANGED <<svars, wvars, fvars, dvars, uvars, input>>

NextConn ==
    \/ \E n \in 1..MaxChunk : Arrive(n)
    \/ \E how \in {"fin", "rst"} : RemoteClose(how)
    \/ Poll

SpecConn == InitConn /\ [][NextConn]_vars

-----------------------------------------------------------------------------
(* Properties of one Connection, checked under SpecConn.                   *)

\* bytes of input that Connection::receive has read from the socket of stream s
Consumed(s) == Arrived(s) - Len(s.sock)

\* the bytes of the frame being received that the connection c holds: the
\* length, as far as it is read, then the payload, as far as it is read
Held(c) ==
    CASE c.read_mode = "Size" -> SubSeq(c.read_buffer, 1, c.read_buffer_actual)
      [] c.read_mode = "Data" ->
            u16_code(Len(c.read_buffer)) \o SubSeq(c.read_buffer, 1, c.read_buffer_actual)
      [] c.read_mode = "Parse" ->
            IF c.read_buffer = << >> THEN << >>
            ELSE u16_code(Len(c.read_buffer)) \o c.read_buffer

\* what one poll of a new client returns when the bytes b have all arrived
OneShot(b) == Client_poll(Client_new(1, 1), [NewStream(<< >>) EXCEPT !.sock = b]).msg

\* the number of complete frames at the start of the bytes b: a frame is a
\* big-endian u16 length and then that many bytes
RECURSIVE CompleteFrames(_)
CompleteFrames(b) ==
    IF Len(b) < 2 THEN 0
    ELSE IF Len(b) < 2 + b[1] * 256 + b[2] THEN 0
    ELSE 1 + CompleteFrames(SubSeq(b, 3 + b[1] * 256 + b[2], Len(b)))

\* the latest poll was made when a bytes of input had arrived and its receive
\* call returned the kind res
Last(a, res) == last = << a, res >>

\* a poll has been made
HasPolled == last[2] # "None"

\* C1: while the stream stays open, a frame of one value that arrives in chunks
\* of any sizes: a receive call made before its last byte has arrived returns
\* WouldBlock, no message and no disconnect, the bytes read so far are held in
\* the connection, and the calls yield the message of the frame once, the one
\* a single call yields when all the bytes have arrived before it.
C1_FramingResumable ==
    (input \in ValidFrames /\ stream.st = "open") =>
        /\ (HasPolled /\ last[1] < Len(input)) => last[2] = "WouldBlock"
        /\ Arrived(stream) < Len(input) => (got = << >> /\ peer.connected)
        /\ Consumed(stream) < Len(input) =>
              Held(peer.connection) = SubSeq(input, 1, Consumed(stream))
        /\ got # << >> => got = << OneShot(input) >>
        /\ (HasPolled /\ last[1] = Len(input)) =>
              (got = << OneShot(input) >> /\ OneShot(input) # None)

\* C1: a frame of 8 bytes has arrived byte by byte, with a poll after each
\* byte, and the eighth poll returned its message
C1_Witness ==
    /\ input = ClientFrame(CMessage(Str_hi))
    /\ stream.st = "open"
    /\ partial = Len(input) - 1
    /\ got = << CMessage(Str_hi) >>

\* C2: poll returns no more messages than complete frames have been received,
\* whatever their bytes, and none while the frame is incomplete; when the frames
\* are well-formed and a poll finds nothing left to read, it has returned one
\* message per frame.
C2_OncePerFrame ==
    /\ Len(got) <= CompleteFrames(SubSeq(input, 1, Arrived(stream)))
    /\ (input \in ValidFrames /\ Last(Len(input), "WouldBlock")) => Len(got) = 1

\* C2: a frame whose payload is two Padding values has made poll return two
\* messages
C2_Witness ==
    /\ input = << 0, 4, 0, 0, 0, 0 >>
    /\ got = << CPadding, CPadding >>

\* C3: a receive call returns a message only when the decoding has consumed the
\* whole payload of the frame; once a frame whose payload holds more, or less,
\* than one value has arrived and is polled, no message has been produced and
\* the receive call has failed, which disconnects the client.
C3_ExactPayload ==
    /\ last[2] = "Ok" => peer.connection.position = Len(peer.connection.read_buffer)
    /\ (input \in TrailingFrames \cup ShortFrames /\ HasPolled /\ last[1] = Len(input))
          => (got = << >> /\ ~peer.connected)

\* C3: the frame 00 04 00 00 00 00 has arrived and the receive call returned
\* Padding with two bytes of the payload left
C3_Witness ==
    /\ input = << 0, 4, 0, 0, 0, 0 >>
    /\ last = << 6, "Ok" >>
    /\ got = << CPadding >>
    /\ peer.connected
    /\ peer.connection.position = 2
    /\ Len(peer.connection.read_buffer) = 4

\* C3, the part about too few bytes: once a frame whose payload holds less than
\* one value has arrived and is polled, the client is disconnected and no
\* message has been produced.
C3_ShortFails ==
    (input \in ShortFrames /\ HasPolled /\ last[1] = Len(input))
        => (got = << >> /\ ~peer.connected)

-----------------------------------------------------------------------------
(* Properties of the server, checked under Spec.  A state of Spec is the   *)
(* state between two calls of update (ticks); "sent" means that            *)
(* Connection::send was called for the command on the peer's connection.   *)

\* the elements of the sequence s
Elems(s) == {s[i] : i \in DOMAIN s}

\* in the latest broadcast step, the i-th command of the queue was sent to the
\* peer u
Sent(u, i) ==
    \E k \in DOMAIN sendlog :
        sendlog[k].to = u /\ sendlog[k].idx = i /\ sendlog[k].cmd = sent_queue[i]

\* in the latest broadcast step, a send to the peer u failed before the i-th
\* command of the queue, which disconnected u
Lost(u, i) ==
    \E k \in DOMAIN sendlog :
        /\ sendlog[k].to = u
        /\ sendlog[k].idx < i
        /\ sendlog[k].res \notin {"Ok", "WouldBlock"}

\* C4: in a broadcast step, every command of the queue is sent to every peer
\* that is connected after the ingest step (the originator of the command and
\* the peer accepted in this tick among them), unless a send of this step to
\* that peer has failed before, which disconnects it; and nothing is sent to
\* any other peer.
C4_BroadcastToAll ==
    /\ \A i \in DOMAIN sent_queue : \A u \in live : Sent(u, i) \/ Lost(u, i)
    /\ \A k \in DOMAIN sendlog :
          sendlog[k].to \in live /\ ~Lost(sendlog[k].to, sendlog[k].idx)

\* C4: a Message has been sent to three peers: the one it came from and the
\* one accepted in the same tick among them
C4_Witness ==
    \E i \in DOMAIN sent_queue :
        /\ sent_queue[i].tag = "Message"
        /\ Cardinality(live) = 3
        /\ newcomer \in live
        /\ sent_queue[i].user_id \in live
        /\ \A u \in live : Sent(u, i)

\* C5: the sends of a broadcast step go through the queue in its order, every
\* send of a command before any send of the next command, so a peer is sent
\* two commands in the order of the queue; the queue is what the tick before
\* left, then what this tick ingested; and a command is broadcast in one tick
\* only: the ticks' queues, one after the other, hold no command twice and
\* what a tick leaves in the queue has not been broadcast.
C5_BroadcastOrder ==
    /\ \A j, k \in DOMAIN sendlog :
          j < k => /\ sendlog[j].idx <= sendlog[k].idx
                   /\ sendlog[j].to = sendlog[k].to => sendlog[j].idx < sendlog[k].idx
    /\ \A k \in DOMAIN sendlog : sendlog[k].cmd = sent_queue[sendlog[k].idx]
    /\ Len(queue_before) <= Len(sent_queue)
    /\ SubSeq(sent_queue, 1, Len(queue_before)) = queue_before
    /\ Len(sent_queue) <= Len(broadcasts)
    /\ \A i \in DOMAIN sent_queue :
          broadcasts[Len(broadcasts) - Len(sent_queue) + i].cmd = sent_queue[i]
    /\ \A i, j \in DOMAIN broadcasts : i < j => broadcasts[i].cmd # broadcasts[j].cmd
    /\ \A m \in Elems(message_queue) : \A i \in DOMAIN broadcasts : broadcasts[i].cmd # m

\* C5: a queue of two commands, one left by the tick before, has been sent to
\* two peers, and commands were broadcast in an earlier tick
C5_Witness ==
    /\ Len(sent_queue) = 2
    /\ Len(queue_before) = 1
    /\ Len(sendlog) = 4
    /\ Len(broadcasts) > 2

\* C6: the Message of the peer that sent Connect{"a"} and then Message{"hi"},
\* which is the first peer accepted, is broadcast after its AddUser, as
\* AddUser{user_id: 1, name: "a"} and Message{user_id: 1, message: "hi"}, and
\* with msg_id 1 when no Message was broadcast before it.
C6_ConnectThenMessage ==
    \A j \in DOMAIN broadcasts :
        /\ broadcasts[j].cmd.tag = "AddUser" => broadcasts[j].cmd = AddUser(1, Str_a)
        /\ (broadcasts[j].cmd.tag = "Message" /\ broadcasts[j].cmd.message = Str_hi) =>
              /\ broadcasts[j].cmd.user_id = 1
              /\ \E i \in 1..(j - 1) : broadcasts[i].cmd = AddUser(1, Str_a)
              /\ (\A i \in 1..(j - 1) : broadcasts[i].cmd.tag # "Message")
                    => broadcasts[j].cmd = SMessage(1, 1, Str_hi)

\* C6: three connected peers have each been sent AddUser{1, "a"} and then
\* Message{1, 1, "hi"}
C6_Witness ==
    \E i, j \in DOMAIN broadcasts :
        /\ i < j
        /\ broadcasts[i] = [cmd |-> AddUser(1, Str_a), to |-> {1, 2, 3}]
        /\ broadcasts[j] = [cmd |-> SMessage(1, 1, Str_hi), to |-> {1, 2, 3}]

\* what the latest ingest step polled, the Paddings left out
NonPadding == SelectSeq(polled, LAMBDA e : e.cmd.tag # "Padding")

\* what the latest ingest step added to the queue
Ingested == SubSeq(sent_queue, Len(queue_before) + 1, Len(sent_queue))

\* the Messages polled after the k-th command of NonPadding
MessagesAfter(k) ==
    Cardinality({j \in DOMAIN NonPadding : j > k /\ NonPadding[j].cmd.tag = "Message"})

\* the stream on which the command c is written, given what the remote ends
\* write: the first writes Connect{"a"} and Message{"hi"}, the second a Padding
\* and Message{"a"}
StreamOf(c) == IF c \in {CConnect(Str_a), CMessage(Str_hi)} THEN 1 ELSE 2

\* C7: the ingest step adds to the queue nothing for a Padding, one AddUser with
\* the name for a Connect and one Message with the next msg_id and the message
\* for a Message, in the order polled; the user_id is that of the peer on whose
\* stream the command was written.
C7_IngestTranslation ==
    /\ Len(Ingested) = Len(NonPadding)
    /\ \A k \in DOMAIN NonPadding :
          /\ NonPadding[k].cmd.tag = "Connect" =>
                Ingested[k] = AddUser(NonPadding[k].user_id, NonPadding[k].cmd.name)
          /\ NonPadding[k].cmd.tag = "Message" =>
                Ingested[k] = SMessage((msg_id_gen - MessagesAfter(k)) % U16Mod,
                                       NonPadding[k].user_id, NonPadding[k].cmd.message)
    /\ \A e \in Elems(polled) : e.user_id = accepted[StreamOf(e.cmd)]

\* C7: one ingest step has polled Message{"hi"} from peer 1 and a Padding from
\* peer 2 and queued Message{1, 1, "hi"} alone
C7_Witness ==
    /\ polled = << [user_id |-> 1, cmd |-> CMessage(Str_hi)],
                   [user_id |-> 2, cmd |-> CPadding] >>
    /\ sent_queue = << SMessage(1, 1, Str_hi) >>

\* the streams whose Client has been observed disconnected (Client::disconnect
\* shuts the stream down)
Shut == {k \in DOMAIN net : net[k].shutdowns > 0}

\* C8: the RemoveUser of a peer observed disconnected is not in the queue that
\* the tick of the observation broadcasts: that tick leaves it in the queue; the
\* next tick's queue begins with what the tick before left, and each of those
\* commands is sent to every peer connected after the ingest step of that tick
\* (unless a send of the step to that peer has failed before).
C8_RemoveUserNextTick ==
    /\ \A k \in Shut :
          /\ k \in DOMAIN accepted
          /\ (RemoveUser(accepted[k]) \in Elems(message_queue))
                # (\E i \in DOMAIN broadcasts : broadcasts[i].cmd = RemoveUser(accepted[k]))
    /\ \A m \in Elems(message_queue) :
          /\ m.tag = "RemoveUser"
          /\ m \notin Elems(sent_queue)
          /\ \E k \in Shut : m.user_id = accepted[k]
    /\ Len(queue_before) <= Len(sent_queue)
    /\ \A i \in DOMAIN queue_before :
          /\ queue_before[i].tag = "RemoveUser"
          /\ sent_queue[i] = queue_before[i]
          /\ \A u \in live : Sent(u, i) \/ Lost(u, i)

\* C8: the tick after peer 2 was observed disconnected has sent RemoveUser{2}
\* to the two peers that are left
C8_Witness ==
    /\ queue_before = << RemoveUser(2) >>
    /\ live = {1, 3}
    /\ Sent(1, 1)
    /\ Sent(3, 1)

\* C9, as the code has it: the client set has an entry for every Client created
\* whose disconnect was not observed, and for no other: the tick that observes
\* the disconnect removes the entry, in its prune step, and so the entry is gone
\* while the RemoveUser waits in the queue for the next tick.
C9_PrunedInSameTick ==
    /\ \A i \in DOMAIN clients : clients[i].connected /\ clients[i].stream \notin Shut
    /\ \A k \in DOMAIN accepted :
          k \notin Shut <=> (\E i \in DOMAIN clients : clients[i].stream = k
                                                      /\ clients[i].user_id = accepted[k])
    /\ \A m \in Elems(message_queue) :
          m.tag = "RemoveUser" => m.user_id \notin Elems(UserIds(clients))

\* C9: peer 2 was observed disconnected in the latest tick, its RemoveUser waits
\* in the queue and peers 1 and 3 are the client set
C9_Witness ==
    /\ message_queue = << RemoveUser(2) >>
    /\ UserIds(clients) = << 1, 3 >>
    /\ 2 \in Shut

\* C9, as stated: the entry of a peer observed disconnected stays in the client
\* set for one more tick, until its RemoveUser has been emitted; so while the
\* RemoveUser waits in the queue the entry is there.
C9_PrunedOneTickLater ==
    \A m \in Elems(message_queue) :
        m.tag = "RemoveUser" => m.user_id \in Elems(UserIds(clients))

\* C10: the user_ids given to the Clients created are strictly increasing in
\* accept order (so pairwise distinct), the first is 1 and none is 0; a Client
\* keeps the user_id it was created with, and no two entries of the client set
\* share a user_id.
C10_UserIdsUnique ==
    /\ accepted # << >> => accepted[1] = 1
    /\ \A i \in DOMAIN accepted : accepted[i] # 0
    /\ \A i, j \in DOMAIN accepted : i < j => accepted[i] < accepted[j]
    /\ \A i \in DOMAIN clients :
          /\ clients[i].stream \in DOMAIN accepted
          /\ clients[i].user_id = accepted[clients[i].stream]
    /\ \A i, j \in DOMAIN clients : i # j => clients[i].user_id # clients[j].user_id

\* C10: three Clients have been created and are the client set
C10_Witness ==
    /\ Len(accepted) = 3
    /\ UserIds(clients) = accepted

\* the Message commands broadcast so far, in broadcast order
MessagesBroadcast == SelectSeq(broadcasts, LAMBDA e : e.cmd.tag = "Message")

\* C11: the k-th Message command broadcast since the server started carries
\* msg_id k (so the msg_ids are distinct, increasing in broadcast order and
\* start at 1), and msg_id_gen has advanced once per Message and not for a
\* Padding or a Connect.
C11_MsgIdsCount ==
    /\ \A k \in DOMAIN MessagesBroadcast : MessagesBroadcast[k].cmd.msg_id = k
    /\ msg_id_gen = Len(MessagesBroadcast)

\* C11: a Connect, a Padding and two Messages have been ingested, and the two
\* Messages were broadcast as number 1 and number 2
C11_Witness ==
    /\ Len(MessagesBroadcast) = 2
    /\ MessagesBroadcast[2].cmd.msg_id = 2
    /\ \E i \in DOMAIN broadcasts : broadcasts[i].cmd.tag = "AddUser"
    /\ net[2].wire = << >>

-----------------------------------------------------------------------------
(* One Client that the server sends commands to, as the broadcast step     *)
(* does: client.send(message); client.flush() for one command after the   *)
(* other, on a socket whose send buffer may be full.                       *)

\* the commands sent
SendCommands == {AddUser(1, Str_a), SMessage(1, 1, Str_hi), RemoveUser(2), SPadding}

\* length of the longest sequence of commands sent
MaxSends == 3

\* the sequences of 1 to n commands
SendScripts(n) == UNION {[1..k -> SendCommands] : k \in 1..n}

\* what the writes of a Connection::send of msg may do: write everything, find
\* the send buffer full after any number of bytes short of the frame, or fail
SendOutcomes(msg) ==
    {WriteOk, WriteFailed}
        \cup (IF nblocked >= MaxBlocked THEN {}
              ELSE {WriteBlocked(n) : n \in 0..(Len(ServerFrame(msg)) - 1)})

InitSend ==
    /\ ServerIdle
    /\ ClientIdle
    /\ CodecIdle
    /\ ConnIdle
    /\ FrameIdle
    /\ outq \in SendScripts(MaxSends)
    /\ rcpt = Client_new(1, 1)
    /\ rstream = NewStream(<< >>)
    /\ wrote = << >>
    /\ handed = << >>
    /\ wlast = "None"
    /\ nblocked = 0

\* the server sends the next command to the client and flushes, the writes of
\* the send having the outcome o
SendOne(o) ==
    /\ outq # << >>
    /\ \E r \in {send_flush(rcpt, rstream, Head(outq), o)} :
          /\ rcpt' = r.client
          /\ rstream' = r.stream
    /\ outq' = Tail(outq)
    /\ wrote' = IF rcpt.connected THEN wrote \o Written(Head(outq), o) ELSE wrote
    /\ handed' = IF rcpt.connected /\ o.res \in {"Ok", "WouldBlock"}
                 THEN Append(handed, Head(outq)) ELSE handed
    /\ wlast' = IF rcpt.connected THEN o.res ELSE "NotConnected"
    /\ nblocked' = IF rcpt.connected /\ o.res = "WouldBlock"
                   THEN nblocked + 1 ELSE nblocked
    /\ UNCHANGED <<svars, cvars, fvars, dvars, uvars>>

NextSend ==
    /\ outq # << >>
    /\ \E o \in SendOutcomes(Head(outq)) : SendOne(o)

SpecSend == InitSend /\ [][NextSend]_vars

\* the frames of the commands cs, one after the other
RECURSIVE Frames(_)
Frames(cs) == IF cs = << >> THEN << >> ELSE ServerFrame(Head(cs)) \o Frames(Tail(cs))

\* the sequence a is the beginning of the sequence b
IsPrefix(a, b) == Len(a) <= Len(b) /\ SubSeq(b, 1, Len(a)) = a

\* C12: a send that would block does not disconnect the peer, and the bytes it
\* did not write are written by a later attempt: what a connected peer's stream
\* has been written is the frames of the commands sent to it, whole and in
\* order, up to the bytes still unsent; and nothing is unsent once a later send
\* has written its frame.
C12_CompleteFrames ==
    /\ wlast = "WouldBlock" => rcpt.connected
    /\ rcpt.connected =>
          /\ IsPrefix(wrote, Frames(handed))
          /\ wlast = "Ok" => wrote = Frames(handed)

\* C12: the send of AddUser{1, "a"} blocked after the two bytes of the length,
\* the client stayed connected, and the next send wrote the frame of
\* Message{1, 1, "hi"} right behind those two bytes
C12_Witness ==
    /\ handed = << AddUser(1, Str_a), SMessage(1, 1, Str_hi) >>
    /\ rcpt.connected
    /\ wlast = "Ok"
    /\ wrote = << 0, 7 >> \o ServerFrame(SMessage(1, 1, Str_hi))

\* C12, the part about the connection: in every state, a send that found the
\* send buffer full has left the client connected and its stream not shut down.
C12_BlockKeepsConnected ==
    wlast = "WouldBlock" => (rcpt.connected /\ rstream.shutdowns = 0)

-----------------------------------------------------------------------------
(* One Connection::send, write by write: the two bytes of the length, then  *)
(* the command's code.  The client's Connection sends ClientCommands, the   *)
(* server's sends ServerCommands; the strings go up to the longest one the   *)
(* codec can carry.                                                          *)

\* longest string whose length the 2-byte length of str::code can hold
StrMax == U16Mod - 1

\* the short strings sent are those of 0 to ShortLen bytes
ShortLen == 3

\* the long strings sent are those of StrMax - NearMax to StrMax bytes
NearMax == 8

\* the string of n bytes "aaa..."
StrOfLen(n) == [i \in 1..n |-> 97]

\* the lengths of the strings sent
SentLengths == (0..ShortLen) \cup ((StrMax - NearMax)..StrMax)

\* the commands sent, each given by the end that sends it, its variant and the
\* length of its string (0 for a variant that has no string)
SentCommands ==
    [side : {"client"}, tag : {"Connect", "Message"}, n : SentLengths]
        \cup [side : {"server"}, tag : {"AddUser", "Message"}, n : SentLengths]
        \cup [side : {"client"}, tag : {"Padding"}, n : {0}]
        \cup [side : {"server"}, tag : {"Padding", "RemoveUser"}, n : {0}]

\* the command that d stands for
CommandOf(d) ==
    IF d.side = "client"
    THEN CASE d.tag = "Padding" -> CPadding
           [] d.tag = "Connect" -> CConnect(StrOfLen(d.n))
           [] d.tag = "Message" -> CMessage(StrOfLen(d.n))
    ELSE CASE d.tag = "Padding" -> SPadding
           [] d.tag = "AddUser" -> AddUser(1, StrOfLen(d.n))
           [] d.tag = "RemoveUser" -> RemoveUser(1)
           [] d.tag = "Message" -> SMessage(1, 1, StrOfLen(d.n))

\* msg.coded_size() of Connection::send
Sent_coded_size(d) ==
    IF d.side = "client" THEN ClientCommand_coded_size(CommandOf(d))
    ELSE ServerCommand_coded_size(CommandOf(d))

\* the bytes msg.code(&mut self.stream) writes
Sent_code(d) ==
    IF d.side = "client" THEN ClientCommand_code(CommandOf(d))
    ELSE ServerCommand_code(CommandOf(d))

\* let data_size = msg.coded_size() as u16
data_size(d) == AsU16(Sent_coded_size(d))

\* what is kept of the bytes of a stream: the first two bytes and how many
\* bytes there are
NoBytes == [head |-> << >>, len |-> 0]

\* the stream w after write_all(b)
write_all(w, b) ==
    [head |-> SubSeq(w.head \o b, 1, Min(2, w.len + Len(b))), len |-> w.len + Len(b)]

InitFrame ==
    /\ ServerIdle
    /\ ClientIdle
    /\ CodecIdle
    /\ ConnIdle
    /\ SendIdle
    /\ sending \in SentCommands
    /\ written = NoBytes
    /\ fpc = "start"

\* self.stream.write_all(&data_size.to_be_bytes())
SendLength ==
    /\ fpc = "start"
    /\ written' = write_all(written, u16_code(data_size(sending)))
    /\ fpc' = "length"
    /\ UNCHANGED <<svars, cvars, wvars, dvars, uvars, sending>>

\* msg.code(&mut self.stream)
SendPayload ==
    /\ fpc = "length"
    /\ written' = write_all(written, Sent_code(sending))
    /\ fpc' = "done"
    /\ UNCHANGED <<svars, cvars, wvars, dvars, uvars, sending>>

NextFrame == SendLength \/ SendPayload

SpecFrame == InitFrame /\ [][NextFrame]_vars

\* the value of the 2-byte big-endian length b
PrefixValue(b) == b[1] * 256 + b[2]

\* C13: once send has returned, the stream holds a 2-byte big-endian length
\* whose value is the number of payload bytes that follow it; the payload is
\* what code writes, coded_size bytes, and nothing else.  This for every
\* command, one that carries a string of 65535 bytes included.
C13_LengthIsPayloadSize ==
    fpc = "done" =>
        /\ Len(Sent_code(sending)) = Sent_coded_size(sending)
        /\ written.len = 2 + Sent_coded_size(sending)
        /\ PrefixValue(written.head) = written.len - 2

\* C13: ClientCommand::Message with a string of 65535 bytes has been sent:
\* 65539 bytes of payload follow a length of 3
C13_Witness ==
    /\ fpc = "done"
    /\ sending = [side |-> "client", tag |-> "Message", n |-> StrMax]
    /\ written.head = << 0, 3 >>
    /\ written.len - 2 = 65539

\* C13, the part about coded_size: in every state after a send, the payload
\* written is coded_size bytes long, and the length written is right whenever
\* coded_size fits a u16.
C13_CodedSizeIsWritten ==
    fpc = "done" =>
        /\ Len(Sent_code(sending)) = Sent_coded_size(sending)
        /\ written.len = 2 + Len(Sent_code(sending))
        /\ written.head = u16_code(data_size(sending))
        /\ Sent_coded_size(sending) < U16Mod =>
              PrefixValue(written.head) = written.len - 2

-----------------------------------------------------------------------------
(* Properties of one Client's connected flag, checked under SpecConn.      *)

\* C14: connected is true when the Client is made and goes from true to false
\* only, never back; the stream is shut down once, when connected becomes
\* false, and not again; a disconnect of a disconnected Client changes neither
\* the Client nor the stream.
C14_DisconnectOnce ==
    /\ [](/\ last[2] = "None" => peer.connected
          /\ stream.shutdowns = (IF peer.connected THEN 0 ELSE 1)
          /\ \A d \in {Client_disconnect(peer, stream)} :
                /\ ~d.client.connected
                /\ Client_disconnect(d.client, d.stream) = d)
    /\ [][/\ ~peer.connected => ~peer'.connected
          /\ stream'.shutdowns >= stream.shutdowns]_vars

\* C14: the Client was disconnected and has been polled again since: it is
\* still disconnected and its stream was shut down once
C14_Witness ==
    /\ ~peer.connected
    /\ stream.shutdowns = 1
    /\ last[2] = "NotConnected"

\* C15: once connected is false, poll returns None without a call of
\* receive, and send and flush return without a write: the Client, its
\* Connection's framing state and the stream are what they were, whatever
\* bytes wait in the socket, and no command is returned for the queue.
C15_DisconnectedIsInert ==
    /\ [](~peer.connected =>
            /\ Client_poll(peer, stream)
                  = Polled([client |-> peer, stream |-> stream], None, "NotConnected")
            /\ \A m \in SendCommands :
                  \A o \in {WriteOk, WriteBlocked(0), WriteBlocked(2), WriteFailed} :
                     Client_send(peer, stream, m, o) = [client |-> peer, stream |-> stream]
            /\ Client_flush(peer, stream) = [client |-> peer, stream |-> stream])
    /\ [][~peer.connected => (peer' = peer /\ got' = got)]_vars

\* C15: a disconnected Client was polled while bytes the Connection had not
\* read were in the socket
C15_Witness ==
    /\ ~peer.connected
    /\ last[2] = "NotConnected"
    /\ stream.sock # << >>
    /\ last[1] = Arrived(stream)

\* the result kinds of Connection::receive that are errors other than
\* WouldBlock
FramingErrors == {"UnexpectedEof", "InvalidData", "ConnectionReset"}

\* C16: a poll of a connected Client returns a command and leaves the Client
\* connected when receive returns one; returns None and leaves the Client
\* connected, its stream not shut down, when receive would block; and on every
\* other error of receive (closed or reset stream, zero-byte read, invalid tag,
\* invalid UTF-8, short payload) returns None and has disconnected the Client
\* and shut its stream down when it returns.
C16_PollOutcomes ==
    /\ last[2] \in {"None", "Ok", "WouldBlock", "NotConnected"} \cup FramingErrors
    /\ last[2] \in {"Ok", "WouldBlock"} => peer.connected
    /\ last[2] \in FramingErrors => (~peer.connected /\ stream.shutdowns = 1)
    /\ peer.connected =>
          \A r \in {Client_poll(peer, stream)} :
             /\ r.res \in {"Ok", "WouldBlock"} \cup FramingErrors
             /\ r.res = "Ok" => (r.msg # None /\ r.client.connected)
             /\ r.res = "WouldBlock" =>
                   (r.msg = None /\ r.client.connected /\ r.stream.shutdowns = 0)
             /\ r.res \in FramingErrors =>
                   (r.msg = None /\ ~r.client.connected /\ r.stream.shutdowns = 1)

\* C16: the latest poll found a frame with the tag 9 and disconnected the
\* Client, having returned no command from the stream
C16_Witness ==
    /\ last[2] = "InvalidData"
    /\ input = << 0, 2, 0, 9 >>
    /\ ~peer.connected
    /\ stream.shutdowns = 1
    /\ got = << >>

-----------------------------------------------------------------------------
(* Properties of the accept step, checked under Spec.                      *)

\* C17: a failure on the connection of one peer, a failure while a stream
\* just accepted is set up included, never makes update return an error: main
\* stops only when accept itself has failed.
C17_PeerFailureNotFatal ==
    pc = "failed" => failure = "accept"

\* C17: update returned the error of Client::new on the stream it had just
\* accepted, while a connected client was being served
C17_Witness ==
    /\ pc = "failed"
    /\ failure = "Client::new"
    /\ \E i \in DOMAIN clients : clients[i].connected
    /\ backlog = << >>

\* what the ingest, broadcast and prune steps of update act on
Served == <<clients, message_queue, msg_id_gen, net, hist>>

\* what only the server's own steps change
Ticked == <<pc, clients, message_queue, inactivity, msg_id_gen, hist>>

\* C18: when accept fails with an error other than WouldBlock, update returns
\* the error at once: the ingest, broadcast and prune steps are not executed,
\* and the clients, their streams and the queue are what they were.  When
\* accept would block (no stream is waiting), update does not return an error
\* and goes on to the ingest step, which polls every client.
C18_AcceptFailureStops ==
    [][/\ (failure' = "accept" /\ failure # "accept") =>
             (pc' = "failed" /\ Served' = Served)
       /\ (backlog = << >> /\ Ticked' # Ticked) =>
             /\ pc' = "running"
             /\ \E ing \in {ingest([clients |-> clients, net |-> net,
                                    message_queue |-> message_queue,
                                    msg_id_gen |-> msg_id_gen, polled |-> << >>], 1)} :
                   /\ polled' = ing.polled
                   /\ sent_queue' = ing.message_queue
                   /\ msg_id_gen' = ing.msg_id_gen]_vars

\* C18: accept failed while a client had unread bytes in its socket and a
\* RemoveUser waited in the queue: the bytes are still unread and the command
\* is still in the queue
C18_Witness ==
    /\ pc = "failed"
    /\ failure = "accept"
    /\ message_queue # << >>
    /\ \E i \in DOMAIN clients :
          clients[i].connected /\ net[clients[i].stream].sock # << >>

\* the Client update made in its accept step, if it made one, has a user_id no
\* Client had before and is the last of clients as long as it is there
NewcomerAtEnd ==
    newcomer # 0 =>
        /\ accepted # << >>
        /\ accepted[Len(accepted)] = newcomer
        /\ \A k \in 1..(Len(accepted) - 1) : accepted[k] # newcomer
        /\ \/ newcomer \notin Elems(UserIds(clients))
           \/ clients[Len(clients)].user_id = newcomer

\* C19: the accept step of update accepts every stream that is waiting: none
\* is left waiting when it returns, and each one accepted is a new Client with
\* a fresh user_id at the end of clients.
C19_AcceptsAllPending ==
    /\ left_pending = 0
    /\ NewcomerAtEnd

\* C19: three streams were waiting when update was called; its accept step
\* made the Client 1 of the first and left the other two waiting
C19_Witness ==
    /\ left_pending = 2
    /\ backlog = << 2, 3 >>
    /\ newcomer = 1
    /\ accepted = << 1 >>
    /\ UserIds(clients) = << 1 >>

\* C19, the part about the Client made: in every state, the Client that the
\* latest accept step made has a fresh user_id and is the last of clients.
C19_OneAcceptAtEnd == NewcomerAtEnd

-----------------------------------------------------------------------------
(* Properties of the queue across ticks, checked under Spec.               *)

\* C20: the queue is cleared at the end of every broadcast step.  Between two
\* calls of update it holds nothing but the RemoveUser commands of the prune
\* step of the latest call, for clients that are gone and that no broadcast
\* has announced yet; no RemoveUser and no Message is broadcast twice; and no
\* command has been sent to a Client that was made after the tick of its
\* broadcast.
C20_QueueClearedEachTick ==
    /\ \A i \in DOMAIN message_queue :
          /\ message_queue[i].tag = "RemoveUser"
          /\ message_queue[i].user_id \in Elems(accepted)
          /\ message_queue[i].user_id \notin Elems(UserIds(clients))
          /\ \A j \in DOMAIN broadcasts : broadcasts[j].cmd # message_queue[i]
          /\ \A k \in DOMAIN message_queue : message_queue[k] = message_queue[i] => k = i
    /\ \A i, j \in DOMAIN broadcasts :
          (broadcasts[i].cmd = broadcasts[j].cmd /\ broadcasts[i].cmd.tag # "AddUser")
              => i = j
    /\ DOMAIN broadcast_peers = DOMAIN broadcasts
    /\ \A i \in DOMAIN broadcasts :
          broadcasts[i].to \subseteq {accepted[k] : k \in 1..broadcast_peers[i]}

\* C20: a command was broadcast when there was one Client; a second Client was
\* made in a later tick and has been sent a later command, and the RemoveUser
\* of a Client pruned in the latest tick waits in the queue
C20_Witness ==
    /\ Len(accepted) >= 2
    /\ \E i \in DOMAIN broadcasts :
          /\ broadcast_peers[i] = 1
          /\ broadcasts[i].to = {accepted[1]}
          /\ \E j \in DOMAIN broadcasts : j > i /\ accepted[2] \in broadcasts[j].to
    /\ Len(message_queue) = 1
    /\ message_queue[1].tag = "RemoveUser"

-----------------------------------------------------------------------------
(* One payload decoded: the bytes that code writes for a command, as they   *)
(* are or damaged (another tag, a byte that breaks the UTF-8 of the string, *)
(* the last bytes cut off), are given to decode of ClientCommand or of      *)
(* ServerCommand.  The command is kept by its description and the bytes are *)
(* computed from it.                                                        *)

\* the lengths of the strings coded
CodecLengths == (0..ShortLen) \cup {StrMax - 1, StrMax}

\* the string of n bytes that is "aaa..." (fill "ascii") or e-acute, two bytes
\* of UTF-8, over and over, behind an "a" if n is odd (fill "multi")
StrOf(n, fill) ==
    [i \in 1..n |->
        IF fill = "ascii" THEN 97
        ELSE IF n % 2 = 1 /\ i = 1 THEN 97
        ELSE IF (n - i) % 2 = 1 THEN 195 ELSE 169]

\* values of the u16 fields: the least, one whose two bytes differ, the greatest
SomeIds == {0, 258, U16Mod - 1}

\* tags that no ClientCommand, or no ServerCommand, has
BadTags(side) == (IF side = "client" THEN {3} ELSE {}) \cup {4, 255, 256, U16Mod - 1}

\* bytes that make a string invalid UTF-8 when they are its last byte
BadLastBytes == {195, 255}

\* what is done to the bytes before they are decoded
Damages(side, tag, n) ==
    {[damage |-> "none", v |-> 0]}
        \cup {[damage |-> "tag", v |-> t] : t \in BadTags(side)}
        \cup {[damage |-> "short", v |-> k] : k \in 1..2}
        \cup (IF tag \in {"Connect", "AddUser", "Message"} /\ n >= 1
              THEN {[damage |-> "utf8", v |-> x] : x \in BadLastBytes}
              ELSE {})

\* the commands coded
Values ==
    [side : {"client"}, tag : {"Padding"}, n : {0}, fill : {"ascii"}, id : {0}]
        \cup [side : {"client"}, tag : {"Connect", "Message"}, n : CodecLengths,
              fill : {"ascii", "multi"}, id : {0}]
        \cup [side : {"server"}, tag : {"Padding"}, n : {0}, fill : {"ascii"}, id : {0}]
        \cup [side : {"server"}, tag : {"RemoveUser"}, n : {0}, fill : {"ascii"},
              id : SomeIds]
        \cup [side : {"server"}, tag : {"AddUser", "Message"}, n : CodecLengths,
              fill : {"ascii", "multi"}, id : SomeIds]

\* the payloads decoded, each a command and what is done to its bytes
Subjects ==
    UNION {{[side |-> x.side, tag |-> x.tag, n |-> x.n, fill |-> x.fill, id |-> x.id,
             damage |-> g.damage, v |-> g.v] : g \in Damages(x.side, x.tag, x.n)} :
           x \in Values}

\* the command that d describes; the user_id of a Message is the complement
\* of its msg_id
ValueOf(d) ==
    IF d.side = "client"
    THEN CASE d.tag = "Padding" -> CPadding
           [] d.tag = "Connect" -> CConnect(StrOf(d.n, d.fill))
           [] d.tag = "Message" -> CMessage(StrOf(d.n, d.fill))
    ELSE CASE d.tag = "Padding" -> SPadding
           [] d.tag = "AddUser" -> AddUser(d.id, StrOf(d.n, d.fill))
           [] d.tag = "RemoveUser" -> RemoveUser(d.id)
           [] d.tag = "Message" ->
                 SMessage(d.id, (U16Mod - 1) - d.id, StrOf(d.n, d.fill))

\* x.code(w) on an empty Vec: the bytes written
Coded(side, x) ==
    IF side = "client" THEN ClientCommand_code(x) ELSE ServerCommand_code(x)

\* x.coded_size()
CodedSize(side, x) ==
    IF side = "client" THEN ClientCommand_coded_size(x) ELSE ServerCommand_coded_size(x)

\* decode on a reader at the start of the bytes b
Decoded(side, b) ==
    IF side = "client" THEN ClientCommand_decode(b, 0) ELSE ServerCommand_decode(b, 0)

\* the bytes b after what d says is done to them
Damaged(b, d) ==
    CASE d.damage = "none" -> b
      [] d.damage = "tag" -> u16_code(d.v) \o SubSeq(b, 3, Len(b))
      [] d.damage = "short" -> SubSeq(b, 1, Len(b) - d.v)
      [] d.damage = "utf8" -> SubSeq(b, 1, Len(b) - 1) \o << d.v >>

\* the bytes given to decode
PayloadOf(d) == Damaged(Coded(d.side, ValueOf(d)), d)

\* what is kept of the result r of decode on the payload of d
Outcome(d, r, len) ==
    [ok |-> r.ok, err |-> r.err, same |-> (r.ok /\ r.val = ValueOf(d)),
     pos |-> r.pos, len |-> len]

InitCodec ==
    /\ ServerIdle
    /\ ClientIdle
    /\ ConnIdle
    /\ SendIdle
    /\ FrameIdle
    /\ subject \in Subjects
    /\ outcome = [ok |-> FALSE, err |-> "None", same |-> FALSE, pos |-> 0, len |-> 0]
    /\ dpc = "start"

\* decode is called on the payload
Decode ==
    /\ dpc = "start"
    /\ \E b \in {PayloadOf(subject)} :
          outcome' = Outcome(subject, Decoded(subject.side, b), Len(b))
    /\ dpc' = "done"
    /\ UNCHANGED <<svars, cvars, wvars, fvars, uvars, subject>>

NextCodec == Decode

SpecCodec == InitCodec /\ [][NextCodec]_vars

\* C21: decode of the bytes that code wrote for a command, of either kind,
\* with any values of its u16 fields and a string of 0 to 65535 bytes of valid
\* UTF-8, returns a command equal to the one coded, having read every byte;
\* code wrote coded_size bytes.
C21_RoundTrip ==
    (dpc = "done" /\ subject.damage = "none") =>
        /\ outcome.ok
        /\ outcome.same
        /\ outcome.pos = outcome.len
        /\ outcome.len = CodedSize(subject.side, ValueOf(subject))

\* C21: the ServerCommand Message{258, 65277, s} with s a string of 65535
\* bytes that holds two-byte characters has been coded and decoded
C21_Witness ==
    /\ dpc = "done"
    /\ subject = [side |-> "server", tag |-> "Message", n |-> StrMax,
                  fill |-> "multi", id |-> 258, damage |-> "none", v |-> 0]
    /\ outcome.same
    /\ outcome.len = 8 + StrMax

\* C22: decode of a payload whose tag is not 0, 1 or 2 for a ClientCommand,
\* or not 0, 1, 2 or 3 for a ServerCommand, returns an error of kind
\* InvalidData and no command, having read the tag only, whatever bytes
\* follow it.
C22_InvalidTag ==
    (dpc = "done" /\ subject.damage = "tag") =>
        /\ ~outcome.ok
        /\ ~outcome.same
        /\ outcome.err = "InvalidData"
        /\ outcome.pos = 2

\* C22: the bytes of the ClientCommand Message{"aaa"} with the tag 3, which
\* only a ServerCommand has, in place of its own were decoded as a
\* ClientCommand
C22_Witness ==
    /\ dpc = "done"
    /\ subject = [side |-> "client", tag |-> "Message", n |-> 3, fill |-> "ascii",
                  id |-> 0, damage |-> "tag", v |-> 3]
    /\ outcome.err = "InvalidData"
    /\ outcome.len = 7

\* C23: decode of a command whose string, name or message, holds bytes that
\* are not valid UTF-8 returns an error of kind InvalidData and no command.
C23_InvalidUtf8 ==
    (dpc = "done" /\ subject.damage = "utf8") =>
        /\ ~outcome.ok
        /\ ~outcome.same
        /\ outcome.err = "InvalidData"

\* C23: the ServerCommand AddUser{258, s} was decoded from bytes in which the
\* 65535 bytes of s end with the first byte of a two-byte character
C23_Witness ==
    /\ dpc = "done"
    /\ subject = [side |-> "server", tag |-> "AddUser", n |-> StrMax,
                  fill |-> "multi", id |-> 258, damage |-> "utf8", v |-> 195]
    /\ outcome.err = "InvalidData"
    /\ outcome.pos = outcome.len

-----------------------------------------------------------------------------
(* Properties of the errors of receive, checked under SpecConn.            *)

\* C24: when a frame has been received whole and its payload holds fewer
\* bytes than the value decoded needs, receive fails with UnexpectedEof and
\* the poll disconnects the Client without a command; as long as bytes of the
\* frame have still to arrive, the polls return WouldBlock and the Client
\* stays connected; a poll that returned WouldBlock has never disconnected.
C24_ShortPayloadFatal ==
    /\ (input \in ShortFrames /\ HasPolled /\ last[1] = Len(input) /\ stream.st # "rst")
          => /\ last[2] \in {"UnexpectedEof", "NotConnected"}
             /\ ~peer.connected
             /\ stream.shutdowns = 1
             /\ got = << >>
    /\ (input \in ShortFrames /\ last[1] < Len(input) /\ stream.st = "open")
          => /\ last[2] \in {"None", "WouldBlock"}
             /\ peer.connected
    /\ last[2] = "WouldBlock" => (peer.connected /\ stream.shutdowns = 0)

\* C24: a frame whose 5 bytes of payload hold Message and a string said to be 2 bytes
\* long of which 1 is there arrived in pieces: an early poll read a part and
\* returned WouldBlock, the poll made when all had arrived failed with
\* UnexpectedEof and disconnected the Client
C24_Witness ==
    /\ input = << 0, 5, 0, 2, 0, 2, 97 >>
    /\ last = << 7, "UnexpectedEof" >>
    /\ partial >= 1
    /\ ~peer.connected
    /\ got = << >>

\* the connection c is waiting for bytes of a length or of a payload: its
\* next receive begins with a read of the socket
AwaitsBytes(c) ==
    c.read_mode \in {"Size", "Data"}
        \/ (c.read_mode = "Parse" /\ c.position >= Len(c.read_buffer))

\* C25: when the read of the socket returns zero bytes (the remote end has
\* closed and nothing is left to read) while the connection waits for bytes of
\* a length or of a payload, receive fails with UnexpectedEof and that poll
\* disconnects the Client, whatever bytes of the frame it holds; a poll whose
\* receive failed so has left the Client disconnected.
C25_ZeroReadFatal ==
    /\ (peer.connected /\ stream.st = "fin" /\ stream.sock = << >>
            /\ AwaitsBytes(peer.connection))
          => \A r \in {Client_poll(peer, stream)} :
                /\ r.res = "UnexpectedEof"
                /\ r.msg = None
                /\ ~r.client.connected
                /\ r.stream.shutdowns = 1
    /\ last[2] = "UnexpectedEof" => (~peer.connected /\ stream.shutdowns = 1)

\* C25: the remote end closed the stream in the middle of a frame; a poll had
\* read a part of the payload before, and the poll after the close failed with
\* UnexpectedEof and disconnected the Client, which holds that part
C25_Witness ==
    /\ stream.st = "fin"
    /\ stream.wire # << >>
    /\ stream.sock = << >>
    /\ partial >= 1
    /\ last[2] = "UnexpectedEof"
    /\ ~peer.connected
    /\ peer.connection.read_mode = "Data"
    /\ peer.connection.read_buffer_actual >= 1

-----------------------------------------------------------------------------
(* Properties of the inactivity counter, checked under Spec.               *)

\* the call of update that leads to the next state accepted a stream, sent
\* the commands of a queue that was not empty, or pruned a client
Active ==
    \/ newcomer' # 0
    \/ sent_queue' # << >>
    \/ message_queue' # << >>

\* C26: at the end of a tick inactivity is 0 if the tick accepted a stream,
\* broadcast at least one command of the queue or pruned at least one client,
\* and one more than at the end of the tick before otherwise (a tick that
\* returns the error of accept is one of these; one that returns the error of
\* Client::new has accepted a stream); it counts from 0, so it is the number
\* of ticks since the latest one with such activity.
C26_InactivityCounts ==
    /\ []((pc = "running" /\ inactivity # 0) =>
             (newcomer = 0 /\ sent_queue = << >> /\ message_queue = << >>))
    /\ [][Ticked' # Ticked =>
            inactivity' = (CASE failure' = "accept" -> inactivity + 1
                             [] failure' = "Client::new" -> 0
                             [] OTHER -> IF Active THEN 0 ELSE inactivity + 1)]_vars

\* C26: with a client connected, two ticks in a row accepted nothing, sent
\* nothing and pruned nothing
C26_Witness ==
    /\ inactivity = 2
    /\ pc = "running"
    /\ \E i \in DOMAIN clients : clients[i].connected
    /\ sent_queue = << >>
    /\ message_queue = << >>
    /\ newcomer = 0

-----------------------------------------------------------------------------
(* The client process: the loop of main in client/src/main.rs with its      *)
(* handle of the server (client/server.rs).  What the handle's Connection   *)
(* does is chosen freely: a receive returns a command, would block or       *)
(* fails, a send succeeds, would block or fails.                             *)

\* UI events handled by the model
MaxEvents == 4

\* result kinds of Connection::receive on the handle
ReceiveResults == {"Ok", "WouldBlock"} \cup FramingErrors

\* result kinds of Connection::send on the handle
SendResults == {"Ok", "WouldBlock", "BrokenPipe"}

\* Some(handle)
SomeServer(connected) == [some |-> TRUE, connected |-> connected]

\* Server::new: the handle main keeps
Server_new == SomeServer(TRUE)

\* Server::disconnect
Server_disconnect(h) == IF ~h.connected THEN h ELSE [h EXCEPT !.connected = FALSE]

\* Server::poll when receive returns res: the handle and whether a command
\* is returned
Server_poll(h, res) ==
    IF ~h.connected THEN [handle |-> h, msg |-> FALSE]
    ELSE IF res = "Ok" THEN [handle |-> h, msg |-> TRUE]
    ELSE IF res = "WouldBlock" THEN [handle |-> h, msg |-> FALSE]
    ELSE [handle |-> Server_disconnect(h), msg |-> FALSE]

\* Server::send when Connection::send returns res
Server_send(h, res) ==
    IF ~h.connected THEN h
    ELSE IF res = "Ok" \/ res = "WouldBlock" THEN h
    ELSE Server_disconnect(h)

\* Server::flush: TcpStream::flush does nothing and returns Ok
Server_flush(h) == h

InitClient ==
    /\ ServerIdle
    /\ ConnIdle
    /\ SendIdle
    /\ FrameIdle
    /\ CodecIdle
    /\ ClientIdle

\* main, lines 21-25: one server.poll() of the loop `while let Some(msg)`, or
\* nothing when there is no handle
MainPoll(res) ==
    /\ mpc = "poll"
    /\ \E r \in {Server_poll(server, res)} :
          /\ server' = r.handle
          /\ mpc' = IF server.some /\ r.msg THEN "poll" ELSE "events"
    /\ UNCHANGED <<svars, cvars, wvars, fvars, dvars, run, events, lastev, reported,
                   writes, dropped, given, typed>>

\* main, line 31: UIEvent::Exit
EventExit ==
    /\ run' = FALSE
    /\ UNCHANGED <<server, reported, writes, given>>

\* main, lines 32-42: UIEvent::Message, the send on the handle returning res
EventMessage(res) ==
    /\ server' = IF server.some THEN Server_flush(Server_send(server, res)) ELSE server
    /\ writes' = IF server.some /\ server.connected THEN writes + 1 ELSE writes
    /\ reported' = IF server.some THEN reported ELSE reported + 1
    /\ given' = IF server.some /\ server.connected
                THEN [given EXCEPT ![Len(given)] = Append(@, CMessage(typed'))]
                ELSE given
    /\ UNCHANGED run

\* A Connect event that makes the handle and sends nothing on it (C37 fails).
EventConnect_silent(res) ==
    /\ server' = IF res = "Refused" THEN NoServer ELSE Server_new
    /\ writes' = writes
    /\ given' = IF res = "Refused" THEN given ELSE Append(given, << >>)
    /\ UNCHANGED <<run, reported>>

\* main, lines 43-60: UIEvent::Connect; the connection fails (res "Refused")
\* or a new handle is made and Connect is sent on it, the send returning res
EventConnect(res) ==
    /\ server' = IF res = "Refused" THEN NoServer ELSE Server_send(Server_new, res)
    /\ writes' = IF res = "Refused" THEN writes ELSE writes + 1
    /\ given' = IF res = "Refused" THEN given
                ELSE Append(given, << CConnect(typed') >>)
    /\ UNCHANGED <<run, reported>>

\* main, lines 61-63: UIEvent::Disconnect
EventDisconnect ==
    /\ server' = NoServer
    /\ UNCHANGED <<run, reported, writes, given>>

\* the texts that the user enters with the event e
Texts(e) == IF e \in {"Message", "Connect"} THEN {Str_a, Str_hi} ELSE {<< >>}

\* main, lines 29-64: ui.poll() returns the event e
MainEvent(e, res) ==
    /\ mpc = "events"
    /\ events < MaxEvents
    /\ events' = events + 1
    /\ lastev' = e
    /\ \E text \in Texts(e) : typed' = text
    /\ CASE e = "Exit" -> EventExit
         [] e = "Message" -> EventMessage(res)
         [] e = "Connect" -> EventConnect(res)
         [] e = "Disconnect" -> EventDisconnect
    /\ UNCHANGED <<svars, cvars, wvars, fvars, dvars, mpc, dropped>>

\* main, lines 29 and 66: ui.poll() returns None and the UI is rendered
MainRender ==
    /\ mpc = "events"
    /\ mpc' = "check"
    /\ UNCHANGED <<svars, cvars, wvars, fvars, dvars, server, run, events, lastev,
                   reported, writes, dropped, given, typed>>

\* An end of the loop body that keeps a handle that is not connected
\* (C27 fails).
MainCheck_keeps ==
    /\ mpc = "check"
    /\ mpc' = IF run THEN "poll" ELSE "exited"
    /\ UNCHANGED <<svars, cvars, wvars, fvars, dvars, server, run, events, lastev,
                   reported, writes, dropped, given, typed>>

\* main, lines 67-72: a handle that is not connected is discarded, and the
\* loop goes on while run is true
MainCheck ==
    /\ mpc = "check"
    /\ server' = IF server.some /\ ~server.connected THEN NoServer ELSE server
    /\ dropped' = IF server.some /\ ~server.connected THEN dropped + 1 ELSE dropped
    /\ mpc' = IF run THEN "poll" ELSE "exited"
    /\ UNCHANGED <<svars, cvars, wvars, fvars, dvars, run, events, lastev, reported,
                   writes, given, typed>>

NextClient ==
    \/ \E res \in ReceiveResults : MainPoll(res)
    \/ \E e \in {"Exit", "Message", "Disconnect"} : \E res \in SendResults :
          MainEvent(e, res)
    \/ \E res \in SendResults \cup {"Refused"} : MainEvent("Connect", res)
    \/ MainRender
    \/ MainCheck

SpecClient == InitClient /\ [][NextClient]_vars

\* the step handles the UI event e
Handles(e) == events' = events + 1 /\ lastev' = e

\* C27: when poll, send or flush on the handle hits an error that is not
\* WouldBlock, connected() is false from then on, and main discards the handle
\* at the end of that iteration of its loop: every iteration begins with no
\* handle or with a connected one.  A message the user enters on a handle that
\* is not connected is not given to the Connection; one entered when there is
\* no handle is answered with the error "Server not connected!" and not sent.
\* There is a handle again only when a Connect event has made a new one.
C27_DroppedUntilReconnect ==
    /\ [](mpc = "poll" => (server.some => server.connected))
    /\ [][/\ (server.some /\ ~server.connected) =>
                (~(server'.some /\ server'.connected) \/ Handles("Connect"))
          /\ (Handles("Message") /\ ~(server.some /\ server.connected)) =>
                writes' = writes
          /\ (Handles("Message") /\ ~server.some) =>
                (reported' = reported + 1 /\ server' = server)
          /\ (~server.some /\ server'.some) => Handles("Connect")]_vars

\* C27: the handle of the first Connect failed and was discarded, the message
\* entered next was answered with the error, and a second Connect has made a
\* new, connected handle
C27_Witness ==
    /\ events = 3
    /\ lastev = "Connect"
    /\ dropped = 1
    /\ reported = 1
    /\ writes = 2
    /\ server = SomeServer(TRUE)

-----------------------------------------------------------------------------
(* Properties of the read modes of a Connection, checked under SpecConn.   *)

\* the connection c waits for a length with nothing of it read: Size mode, a
\* buffer of 2 bytes, position 0, no byte filled
AwaitingLength(c) ==
    /\ c.read_mode = "Size"
    /\ Len(c.read_buffer) = u16_coded_size
    /\ c.position = 0
    /\ c.read_buffer_actual = 0

\* C28: when receive has returned a command, the connection is back in Size
\* mode with a buffer of 2 bytes and no progress, so that the next receive
\* begins with the read of a length from the socket.
C28_ResetOnReturn ==
    last[2] = "Ok" => AwaitingLength(peer.connection)

\* C28: a frame whose payload holds two Padding values was received; a
\* receive returned the first and left the connection in Parse mode over the
\* payload, the next receive returned the second from the bytes of that frame
C28_Witness ==
    /\ input = << 0, 4, 0, 0, 0, 0 >>
    /\ got = << CPadding, CPadding >>
    /\ last = << 6, "Ok" >>
    /\ peer.connection.read_mode = "Parse"
    /\ peer.connection.position = 4

\* C28, the part about the next receive: in every state where a command was
\* returned and its payload is consumed to the end, the next receive does what
\* it would do on a connection that waits for a length.
C28_ResetByNextReceive ==
    (last[2] = "Ok" /\ peer.connection.position >= Len(peer.connection.read_buffer))
        => /\ peer.connection.read_mode = "Parse"
           /\ Connection_receive(peer.connection, stream)
                 = Connection_receive(
                      [resize_buf(peer.connection, u16_coded_size)
                          EXCEPT !.read_mode = "Size"],
                      stream)

\* the connection and stream before each iteration of the loop of a receive
\* called on c and s, and when it returns
Iterations(c, s) ==
    {Continues(c, s), receive_iter(c, s), receive_next(receive_iter(c, s)),
     receive_next(receive_next(receive_iter(c, s))), Connection_receive(c, s)}

\* the buffer of c has the size of its mode and is filled within its bounds
BufferFits(c) ==
    /\ c.read_mode \in {"Size", "Data", "Parse"}
    /\ c.read_mode = "Size" => Len(c.read_buffer) = u16_coded_size
    /\ 0 <= c.read_buffer_actual
    /\ c.read_buffer_actual <= Len(c.read_buffer)
    /\ 0 <= c.position
    /\ c.position <= Len(c.read_buffer)

\* one iteration of the loop from x to y keeps the mode or moves it one step
\* on: Size -> Data when the length is complete, the buffer then having the
\* length declared; Data -> Parse when the payload is complete; Parse -> Size
\* when the buffer is consumed to its end
ModeStep(x, y) ==
    \/ y.conn.read_mode = x.conn.read_mode
    \/ /\ x.conn.read_mode = "Size"
       /\ y.conn.read_mode = "Data"
       /\ \E f \in {fill_buf(x.conn, x.stream)} :
             /\ f.res = "Ok"
             /\ f.conn.read_buffer_actual = u16_coded_size
             /\ Len(y.conn.read_buffer)
                   = f.conn.read_buffer[1] * 256 + f.conn.read_buffer[2]
       /\ y.conn.read_buffer_actual = 0
    \/ /\ x.conn.read_mode = "Data"
       /\ y.conn.read_mode = "Parse"
       /\ y.conn.read_buffer_actual = Len(y.conn.read_buffer)
       /\ Len(y.conn.read_buffer) = Len(x.conn.read_buffer)
       /\ y.conn.position = 0
    \/ /\ x.conn.read_mode = "Parse"
       /\ y.conn.read_mode = "Size"
       /\ x.conn.position >= Len(x.conn.read_buffer)
       /\ AwaitingLength(y.conn)

\* the length is decoded from 2 filled bytes at position 0: the decode of
\* Size mode cannot fail
LengthDecodes(x) ==
    (x.conn.read_mode = "Size") =>
        \A f \in {fill_buf(x.conn, x.stream)} :
            f.res = "Ok" =>
                /\ f.conn.position = 0
                /\ f.conn.read_buffer_actual = u16_coded_size
                /\ u16_decode(f.conn.read_buffer, f.conn.position).ok

\* the length that the frame being received declares, read from input: the
\* two bytes in front of the bytes of its payload read so far
DeclaredLength(c, s) ==
    input[Consumed(s) - c.read_buffer_actual - 1] * 256
        + input[Consumed(s) - c.read_buffer_actual]

\* C29: in every state of a connection, and before every iteration of the
\* loop of receive: the buffer has 2 bytes in Size mode and the declared
\* length of the payload in Data mode; read_buffer_actual is between 0 and the
\* length of the buffer; an iteration changes the mode only from Size to Data
\* (length complete), from Data to Parse (payload complete) or from Parse to
\* Size (buffer consumed); and the length is decoded from 2 filled bytes at
\* position 0, so that the decode of Size mode never fails.
C29_ModeInvariant ==
    /\ BufferFits(peer.connection)
    /\ (peer.connection.read_mode = "Data" /\ stream.st # "rst")
          => Len(peer.connection.read_buffer) = DeclaredLength(peer.connection, stream)
    /\ peer.connected =>
          \A x \in Iterations(peer.connection, stream) :
             /\ BufferFits(x.conn)
             /\ LengthDecodes(x)
             /\ ~x.done => ModeStep(x, receive_iter(x.conn, x.stream))

\* C29: the connection is in Data mode with a buffer of the 4 bytes that the
\* length of the frame declares, 1 of them filled, after the length arrived
\* in two pieces
C29_Witness ==
    /\ input = ClientFrame(CMessage(<< >>))
    /\ peer.connection.read_mode = "Data"
    /\ Len(peer.connection.read_buffer) = 4
    /\ peer.connection.read_buffer_actual = 1
    /\ partial = 2
    /\ peer.connected

\* the clients that the tick of this step polls: the client set, and at its
\* end the client that poll_listener accepted in the tick
TickClients ==
    IF newcomer' # 0
    THEN Append(clients, Client_new(Head(backlog), newcomer'))
    ELSE clients

\* what the poll of the client c returned: r
PollOf(c, r) ==
    [user_id |-> c.user_id, cmd |-> r.msg, stream |-> c.stream,
     sock |-> r.stream.sock]

\* one poll of each of the clients cs whose streams are nt, in the order of cs
Polls(cs, nt) ==
    [i \in DOMAIN cs |-> PollOf(cs[i], Client_poll(cs[i], nt[cs[i].stream]))]

\* the whole frames at the head of the bytes b
RECURSIVE FramesIn(_)
FramesIn(b) ==
    IF Len(b) < u16_coded_size THEN 0
    ELSE IF Len(b) < u16_coded_size + b[1] * 256 + b[2] THEN 0
    ELSE 1 + FramesIn(SubSeq(b, u16_coded_size + b[1] * 256 + b[2] + 1, Len(b)))

\* the user_id of the peer that the ServerCommand m comes from
FromUser(m) == m.user_id

\* the user_ids of s increase from each entry to the next
Ascending(s) == \A i, j \in DOMAIN s : i < j => s[i] < s[j]

\* C30: a tick polls each peer of the client set once, in the order of the
\* collection (the order of accepts), the peer accepted in the tick last: what
\* the tick polls is what one poll of each yields, a tick takes one frame at
\* most from the bytes a peer has sent, the commands that a tick queues come
\* from peers in accept order, one at most from each, and so a peer of which
\* k whole frames have arrived has k - 1 of them left after a tick.
C30_OnePollPerPeer ==
    /\ [](/\ Ascending([i \in DOMAIN polled |-> polled[i].user_id])
          /\ Ascending([i \in DOMAIN Ingested |-> FromUser(Ingested[i])])
          /\ Ascending([i \in DOMAIN clients |-> clients[i].user_id]))
    /\ [][(Ticked' # Ticked /\ failure' = "None") =>
            \E ps \in {Polls(TickClients, net)} :
               /\ \E some \in {SelectSeq(ps, LAMBDA e : e.cmd # None)} :
                     polled' = [i \in DOMAIN some |->
                                  [user_id |-> some[i].user_id, cmd |-> some[i].cmd]]
               /\ \A e \in Elems(ps) :
                     /\ net'[e.stream].sock = e.sock
                     /\ FramesIn(e.sock) >= FramesIn(net[e.stream].sock) - 1]_vars

\* C30: the tick that accepted the first peer polled it and took its
\* Connect{"a"}; the Message{"hi"} that had arrived with it is left, a whole
\* frame, for the next tick
C30_Witness ==
    /\ newcomer = 1
    /\ polled = << [user_id |-> 1, cmd |-> CConnect(Str_a)] >>
    /\ sent_queue = << AddUser(1, Str_a) >>
    /\ net[1].sock = ClientFrame(CMessage(Str_hi))
    /\ clients[1].connected

\* every command that was pushed to message_queue so far, in the order pushed:
\* those of the queues broadcast, then those that wait for the next tick
Enqueued == [i \in DOMAIN broadcasts |-> broadcasts[i].cmd] \o message_queue

\* the user_ids of the peers removed from the client set
Removed == Elems(accepted) \ Elems(UserIds(clients))

\* where RemoveUser{u} is in the commands q
RemovalsOf(q, u) == {i \in DOMAIN q : q[i] = RemoveUser(u)}

\* C31: RemoveUser{u} is pushed once for each peer u removed from the client
\* set and for no other peer, and no command with the user_id u is pushed
\* after it: it is the last command broadcast for u.
C31_RemoveUserLast ==
    \E q \in {Enqueued} : \E gone \in {Removed} :
       /\ \A u \in gone : Cardinality(RemovalsOf(q, u)) = 1
       /\ \A i \in DOMAIN q :
             q[i].tag = "RemoveUser" =>
                /\ FromUser(q[i]) \in gone
                /\ \A j \in (i + 1)..Len(q) : FromUser(q[j]) # FromUser(q[i])

\* C31: the first peer was announced, spoke and was removed; RemoveUser{1} was
\* broadcast after its AddUser and its Message, and a Message of the second
\* peer after that
C31_Witness ==
    /\ 1 \in Removed
    /\ \E i, j, k, l \in DOMAIN broadcasts :
          /\ i < j /\ j < k /\ k < l
          /\ broadcasts[i].cmd = AddUser(1, Str_a)
          /\ broadcasts[j].cmd.tag = "Message" /\ broadcasts[j].cmd.user_id = 1
          /\ broadcasts[k].cmd = RemoveUser(1)
          /\ broadcasts[l].cmd.tag = "Message" /\ broadcasts[l].cmd.user_id = 2

\* C32: every Message and every RemoveUser broadcast with the user_id u comes
\* after an AddUser with the user_id u in the order of broadcast.
C32_AnnouncedFirst ==
    \A i \in DOMAIN broadcasts :
       broadcasts[i].cmd.tag \in {"Message", "RemoveUser"} =>
          \E j \in DOMAIN broadcasts :
             /\ j < i
             /\ broadcasts[j].cmd.tag = "AddUser"
             /\ broadcasts[j].cmd.user_id = broadcasts[i].cmd.user_id

\* C32: the second peer sent a Padding and Message{"a"} and never a Connect:
\* Message{msg_id, 2, "a"} was broadcast to a connected peer, and no AddUser
\* with the user_id 2 was ever broadcast
C32_Witness ==
    /\ \E i \in DOMAIN broadcasts :
          /\ broadcasts[i].cmd.tag = "Message"
          /\ broadcasts[i].cmd.user_id = 2
          /\ broadcasts[i].cmd.message = Str_a
          /\ 1 \in broadcasts[i].to
    /\ \A j \in DOMAIN broadcasts : broadcasts[j].cmd # AddUser(2, Str_a)
    /\ \A j \in DOMAIN broadcasts :
          broadcasts[j].cmd.tag = "AddUser" => broadcasts[j].cmd.user_id # 2

\* C33: the queue that a tick broadcasts begins with the RemoveUser commands
\* that the prune step of the tick before pushed, all of them in front of every
\* command that the tick ingested; they are sent first; and they are in the
\* order in which the peers removed were in the collection, which is the order
\* of their user_ids.
C33_RemovalsFirst ==
    /\ Len(queue_before) <= Len(sent_queue)
    /\ SubSeq(sent_queue, 1, Len(queue_before)) = queue_before
    /\ \A i \in DOMAIN sent_queue :
          (sent_queue[i].tag = "RemoveUser") <=> (i <= Len(queue_before))
    /\ Ascending([i \in DOMAIN queue_before |-> FromUser(queue_before[i])])
    /\ Ascending([i \in DOMAIN message_queue |-> FromUser(message_queue[i])])
    /\ \A j, k \in DOMAIN sendlog :
          (sendlog[j].idx <= Len(queue_before) /\ sendlog[k].idx > Len(queue_before))
             => j < k

\* C33: one prune step removed the second and the third peer; the next tick
\* sent RemoveUser{2}, then RemoveUser{3}, then the Message it ingested from
\* the first peer
C33_Witness ==
    /\ queue_before = << RemoveUser(2), RemoveUser(3) >>
    /\ Len(sent_queue) = 3
    /\ sent_queue[3].tag = "Message"
    /\ sent_queue[3].user_id = 1
    /\ Len(sendlog) = 3
    /\ sendlog[1].cmd = RemoveUser(2)
    /\ sendlog[2].cmd = RemoveUser(3)
    /\ sendlog[3].cmd = sent_queue[3]

\* the polls of the clients cs in this tick, each on its own stream
OwnPolls(cs) == [i \in DOMAIN cs |-> Client_poll(cs[i], net[cs[i].stream])]

\* the tick of this step observed the failure of a peer: its prune step removed
\* a client
PeerFailed ==
    /\ Ticked' # Ticked
    /\ failure' = "None"
    /\ Len(clients') < Len(TickClients)

\* C34: in a tick in which the connection of a peer fails, in poll or in send,
\* every peer that is left has the connected flag and the framing state that
\* its own poll gave it; a peer is removed only for a failure of its own poll
\* or of a send to it; the queue broadcast is what the tick before left and
\* what the polls of this tick yielded, the failing peer's included; and every
\* command of that queue was sent to every peer that is left.
C34_FailureIsLocal ==
    [][PeerFailed =>
        \E ps \in {OwnPolls(TickClients)} :
          /\ \A i \in DOMAIN ps :
                \/ /\ ps[i].client \in Elems(clients')
                   /\ ps[i].client.connected
                   /\ \A m \in DOMAIN sent_queue' :
                         \E k \in DOMAIN sendlog' :
                            /\ sendlog'[k].to = ps[i].client.user_id
                            /\ sendlog'[k].idx = m
                            /\ sendlog'[k].cmd = sent_queue'[m]
                            /\ sendlog'[k].res \in {"Ok", "WouldBlock"}
                \/ /\ ps[i].client.user_id \notin Elems(UserIds(clients'))
                   /\ \/ ~ps[i].client.connected
                      \/ \E k \in DOMAIN sendlog' :
                            /\ sendlog'[k].to = ps[i].client.user_id
                            /\ sendlog'[k].res = "BrokenPipe"
          /\ Len(sent_queue')
                = Len(message_queue)
                     + Cardinality({i \in DOMAIN ps :
                                       ps[i].msg.tag \in {"Connect", "Message"}})]_vars

\* C34: the send of the first of two commands to the third peer failed; the
\* first and the second peer, from which the two commands came, were sent both
\* and are in the client set, and the third peer is not
C34_Witness ==
    /\ Len(sent_queue) = 2
    /\ sent_queue[1].user_id = 1
    /\ sent_queue[2].user_id = 2
    /\ \E k \in DOMAIN sendlog :
          sendlog[k].to = 3 /\ sendlog[k].idx = 1 /\ sendlog[k].res = "BrokenPipe"
    /\ \A u \in {1, 2} : \A m \in {1, 2} : Sent(u, m)
    /\ UserIds(clients) = << 1, 2 >>
    /\ \A j \in DOMAIN clients : clients[j].connected
    /\ message_queue = << RemoveUser(3) >>

\* the bytes that the next receive of c on s starts from, when it starts a
\* frame or goes on with its length
NextBytes(c, s) ==
    IF c.read_mode = "Size" THEN Held(c) \o s.sock ELSE s.sock

\* the next poll of the peer processes a frame whose declared length is 0
ZeroLengthNext ==
    /\ peer.connected
    /\ \/ peer.connection.read_mode = "Size"
       \/ /\ peer.connection.read_mode = "Parse"
          /\ peer.connection.position >= Len(peer.connection.read_buffer)
    /\ Len(NextBytes(peer.connection, stream)) >= u16_coded_size
    /\ NextBytes(peer.connection, stream)[1] = 0
    /\ NextBytes(peer.connection, stream)[2] = 0

-----------------------------------------------------------------------------
(* Properties of the client's sends, checked under SpecClient; "sent" means *)
(* that the command was given to Connection::send of the handle.            *)

\* C37: each Connect event whose connection succeeds makes a new handle and
\* sends Connect with the user_name entered on it, once, before anything
\* else; a handle is made by nothing else; every later command on a handle is
\* a Message, sent with the text entered while that handle is main's `server`
\* and connected: nothing is sent on a handle once a later one is made or the
\* handle is discarded.
C37_ConnectFirst ==
    /\ [](/\ \A h \in DOMAIN given :
                /\ given[h] # << >>
                /\ given[h][1].tag = "Connect"
                /\ \A j \in DOMAIN given[h] : j > 1 => given[h][j].tag = "Message"
          /\ server.some => given # << >>)
    /\ [][/\ (Handles("Connect") /\ server'.some) =>
                given' = Append(given, << CConnect(typed') >>)
          /\ Len(given') # Len(given) =>
                /\ Handles("Connect")
                /\ server'.some
                /\ Len(given') = Len(given) + 1
          /\ \A h \in DOMAIN given :
                given'[h] # given[h] =>
                   /\ h = Len(given)
                   /\ server.some
                   /\ server.connected
                   /\ Handles("Message")
                   /\ given'[h] = Append(given[h], CMessage(typed'))
          /\ (~server.some \/ ~server.connected) =>
                \A h \in DOMAIN given : given'[h] = given[h]]_vars

\* C37: two Connect events made two handles; Connect{"a"} and then
\* Message{"hi"} were sent on the first, Connect{"hi"} and then Message{"a"}
\* on the second, which is connected
C37_Witness ==
    /\ given = << << CConnect(Str_a), CMessage(Str_hi) >>,
                  << CConnect(Str_hi), CMessage(Str_a) >> >>
    /\ server = SomeServer(TRUE)
    /\ events = 4

-----------------------------------------------------------------------------
(* The server whose ticks never end: main calls update in a loop, and      *)
(* between two calls it only sleeps, for inactivity.min(25) * 10 ms.  The   *)
(* ticks beyond MaxInactivity idle ones are those of Spec with the counter *)
(* kept at the value it has reached, which main does not tell from a       *)
(* larger one.                                                             *)

\* main calls update after more than MaxInactivity idle ticks
BeginLateUpdate ==
    /\ pc = "running"
    /\ inactivity > MaxInactivity

\* update when poll_listener finds no stream to accept (WouldBlock)
LateUpdateNoAccept ==
    /\ BeginLateUpdate
    /\ backlog = << >>
    /\ newcomer' = 0
    /\ left_pending' = 0
    /\ UpdateFrom(clients, inactivity)
    /\ UNCHANGED <<pc, failure, user_id_gen, backlog, accepted, cvars, wvars, fvars, dvars, uvars>>

\* update when poll_listener accepts a stream and Client::new succeeds
LateUpdateAccept ==
    /\ BeginLateUpdate
    /\ backlog # << >>
    /\ user_id_gen' = IdGen_get(user_id_gen)
    /\ accepted' = Append(accepted, IdGen_get(user_id_gen))
    /\ newcomer' = IdGen_get(user_id_gen)
    /\ backlog' = Tail(backlog)
    /\ left_pending' = Len(Tail(backlog))
    /\ UpdateFrom(Append(clients, Client_new(Head(backlog), IdGen_get(user_id_gen))),
                  0)
    /\ UNCHANGED <<pc, failure, cvars, wvars, fvars, dvars, uvars>>

\* the server while accept does not fail and no remote end closes its stream
\* between two ticks: a stream is lost when a write on it fails during a tick
NextLive ==
    \/ Connect
    \/ \E k \in DOMAIN net : NetArrive(k)
    \/ UpdateNoAccept
    \/ UpdateAccept
    \/ LateUpdateNoAccept
    \/ LateUpdateAccept

\* a call of update now would change the state: it counts an idle tick up to
\* MaxInactivity + 1, or accepts or fails to accept a stream, or broadcasts the
\* queue, or its ingest step changes a client or a stream or queues a command
TickPending ==
    /\ pc = "running"
    /\ \/ inactivity <= MaxInactivity
       \/ backlog # << >>
       \/ message_queue # << >>
       \/ \E ing \in {ingest([clients |-> clients, net |-> net,
                               message_queue |-> message_queue,
                               msg_id_gen |-> msg_id_gen, polled |-> << >>], 1)} :
             \/ ing.clients # clients
             \/ ing.net # net
             \/ ing.message_queue # << >>

\* main's loop never stops calling update while update returns Ok: weak
\* fairness of the update actions, WF_vars(UpdateNoAccept \/ ...), with
\* ENABLED <<...>>_vars written as the state predicate TickPending, which
\* implies it, and the steps of the update actions as the steps that change
\* what only update changes
TicksGoOn == []<>(~TickPending) \/ []<><<Ticked' # Ticked>>_vars

SpecLive == Init /\ [][NextLive]_vars /\ TicksGoOn

\* the Connect and Message frames that the remote ends write: the stream, the
\* segment with which the frame has arrived whole, and the command
TrackedFrames ==
    { [stream |-> 1, seg |-> 1, cmd |-> CConnect(Str_a)],
      [stream |-> 1, seg |-> 2, cmd |-> CMessage(Str_hi)],
      [stream |-> 2, seg |-> 2, cmd |-> CMessage(Str_a)] }

\* the frame f has arrived whole at the server's socket
HasArrived(f) ==
    /\ f.stream \in DOMAIN net
    /\ Len(Cast[f.stream]) - Len(net[f.stream].wire) >= f.seg

\* the command of f was ingested and its ServerCommand, with the user_id of
\* the peer of the stream, was broadcast, to the peer it came from too
WasBroadcast(f) ==
    /\ f.stream \in DOMAIN accepted
    /\ \E i \in DOMAIN broadcasts :
          /\ broadcasts[i].cmd.user_id = accepted[f.stream]
          /\ \/ /\ f.cmd.tag = "Connect"
                /\ broadcasts[i].cmd = AddUser(accepted[f.stream], f.cmd.name)
             \/ /\ f.cmd.tag = "Message"
                /\ broadcasts[i].cmd.tag = "Message"
                /\ broadcasts[i].cmd.message = f.cmd.message
          /\ accepted[f.stream] \in broadcasts[i].to

\* the peer of f did not stay connected: its stream was closed or reset by the
\* remote end, or shut down by the server
Left(f) ==
    /\ f.stream \in DOMAIN net
    /\ \/ net[f.stream].st # "open"
       \/ net[f.stream].shutdowns > 0

\* C35: while update is called again and again and accept does not fail, a
\* Connect or Message frame that has arrived whole from a peer that stays
\* connected is ingested in the end, and its ServerCommand is broadcast in the
\* tick that ingests it to every peer connected then, the peer it came from
\* among them.
C35_ArrivedIsBroadcast ==
    /\ \A f \in TrackedFrames :
          HasArrived(f) ~> (WasBroadcast(f) \/ Left(f) \/ pc = "failed")
    /\ [](\A i \in DOMAIN sent_queue :
             \A u \in live : Sent(u, i) \/ Lost(u, i))

\* C35: the Message of the second peer, which arrived behind a Padding and in
\* two segments, was broadcast to the three peers, the second among them; no
\* stream is closed and the server runs
C35_Witness ==
    /\ pc = "running"
    /\ WasBroadcast([stream |-> 2, seg |-> 2, cmd |-> CMessage(Str_a)])
    /\ ~Left([stream |-> 2, seg |-> 2, cmd |-> CMessage(Str_a)])
    /\ \E i \in DOMAIN broadcasts :
          /\ broadcasts[i].cmd.tag = "Message"
          /\ broadcasts[i].cmd.user_id = 2
          /\ broadcasts[i].to = {1, 2, 3}
    /\ \A k \in DOMAIN net : net[k].st = "open"

=============================================================================
